---- MODULE Spec2Model ----
(***************************************************************************)
(* Model of the coherent cache controller (class Cache) of the memory      *)
(* hierarchy component.  One cache instance is a record; every C++ method  *)
(* is an operator from a cache record to a cache record, so that an action *)
(* is one complete run of an event handler, nested calls included.         *)
(* The kernel (links, self link, bus arbiter) and the neighbours are the   *)
(* environment.                                                            *)
(***************************************************************************)
EXTENDS Integers, Sequences, FiniteSets, TLC

VARIABLES cache, env, hist

vars == <<cache, env, hist>>

(***************************************************************************)
(* Bounds of the model.                                                    *)
(***************************************************************************)
\* number of unsolicited events the neighbours may deliver
MaxExt == 2
MaxDeep == 3
\* number of distinct block addresses the neighbours use
NumBlocks == 3
\* iterations after which a replay loop is taken not to terminate
ReplayLimit == 6

(***************************************************************************)
(* Geometry: num_ways, num_rows, blocksize of the modelled instance.       *)
(***************************************************************************)
n_ways == 2
n_rows == 1
blocksize == 2

NULL == 0
NO_ID == <<0, "none">>

BlockAddrs == {blocksize * n_rows * k : k \in 0..(NumBlocks - 1)}

Sources == {"UPSTREAM", "DOWNSTREAM", "SNOOP", "DIRECTORY", "SELF", "PREFETCHER"}

\* n DIV 2^k, as the shifts of the address split
numBits(x) == CHOOSE k \in 0..8 : 2^k <= x /\ x < 2^(k+1)
rowshift == numBits(blocksize)
rowmask == n_rows - 1
tagshift == numBits(blocksize) + numBits(n_rows)

addrToTag(addr) == addr \div (2^tagshift)
addrToBlockAddr(addr) == addr - (addr % blocksize)
findRowIdx(addr) == (addr \div (2^rowshift)) % n_rows

(***************************************************************************)
(* Sequence helpers.                                                       *)
(***************************************************************************)
Last(s) == s[Len(s)]
Front(s) == SubSeq(s, 1, Len(s) - 1)
Range(s) == {s[i] : i \in 1..Len(s)}
RECURSIVE SelectIdx(_, _, _)
SelectIdx(s, i, keep) ==
    IF i > Len(s) THEN <<>>
    ELSE (IF i \in keep THEN <<s[i]>> ELSE <<>>) \o SelectIdx(s, i + 1, keep)


(***************************************************************************)
(* Events (MemEvent).  An id is a pair <<counter, creator>>.  Only the ids *)
(* the cache reads are modelled: those of Invalidate events (compared with *)
(* response_to of ACK and NACK) and of requests (compared with the         *)
(* initiating event of a load); every other event carries NO_ID.           *)
(***************************************************************************)
NoPayload == <<>>
ZeroData == [i \in 1..blocksize |-> 0]

Event(id, respTo, cmd, src, dst, addr, size, flags, payload, link) ==
    [id |-> id, respTo |-> respTo, cmd |-> cmd, src |-> src, dst |-> dst,
     addr |-> addr, size |-> size, flags |-> flags, payload |-> payload,
     link |-> link]

NoEvent == Event(NO_ID, NO_ID, "NULL", "", "", 0, 0, {}, NoPayload, "")

\* new MemEvent(this, addr, cmd)
MemEvent(c, addr, cmd) ==
    Event(NO_ID, NO_ID, cmd, c.name, "", addr, 0, {}, NoPayload, "")

ResponseCmd(cmd) ==
    CASE cmd = "ReadReq" -> "ReadResp"
      [] cmd = "WriteReq" -> "WriteResp"
      [] cmd = "RequestData" -> "SupplyData"
      [] cmd = "Invalidate" -> "ACK"
      [] cmd = "Fetch" -> "FetchResp"
      [] cmd = "FetchInvalidate" -> "FetchResp"
      [] OTHER -> "NULLCMD"

\* ev->makeResponse(this)
makeResponse(c, ev) ==
    Event(NO_ID, ev.id, ResponseCmd(ev.cmd), c.name, ev.src, ev.addr, ev.size,
          {}, NoPayload, "")

(***************************************************************************)
(* Blocks (CacheBlock) and rows (CacheRow).  A block pointer is a pair     *)
(* <<row, col>>; NoBlock is the null pointer.                              *)
(***************************************************************************)
Rows == 0..(n_rows - 1)
Ways == 1..n_ways
NoBlock == <<-1, 0>>

InitBlock ==
    [baseAddr |-> 0, tag |-> 0, status |-> "INVALID", data |-> ZeroData,
     last_touched |-> 0, locked |-> 0, user_locked |-> 0,
     user_lock_needs_wb |-> FALSE, wb_in_progress |-> FALSE,
     loadInfo |-> NULL]

Blk(c, b) == c.blocks[b[1]][b[2]]

SetBlk(c, b, f, v) == [c EXCEPT !.blocks[b[1]][b[2]][f] = v]

isValid(blk) == blk.status # "INVALID" /\ blk.status # "ASSIGNED"
isInvalid(blk) == blk.status = "INVALID"
isAssigned(blk) == blk.status = "ASSIGNED"
isLocked(blk) == blk.locked > 0

\* a failed ASSERT / assert / _abort ends the simulation
Abort(c, why) == IF c.aborted = "" THEN [c EXCEPT !.aborted = why] ELSE c

lock(c, b) == SetBlk(c, b, "locked", Blk(c, b).locked + 1)

unlock(c, b) ==
    IF Blk(c, b).locked = 0 THEN Abort(c, "unlock of an unlocked block")
    ELSE SetBlk(c, b, "locked", Blk(c, b).locked - 1)

\* block->last_touched = getCurrentSimTime()
touch(c, b) == SetBlk(c, b, "last_touched", c.now)

activate(c, b, addr) ==
    [c EXCEPT !.blocks[b[1]][b[2]].tag = addrToTag(addr),
              !.blocks[b[1]][b[2]].baseAddr = addrToBlockAddr(addr),
              !.blocks[b[1]][b[2]].status = "ASSIGNED"]

\* CacheRow::getLRU: the least recently touched unlocked block; an Invalid
\* unlocked block is used first
LRUCandidates(c, r) == {w \in Ways : c.blocks[r][w].locked = 0}

getLRU(c, r) ==
    LET cand == LRUCandidates(c, r)
        inv == {w \in cand : isInvalid(c.blocks[r][w])}
        best(S) == CHOOSE w \in S : \A v \in S :
                       \/ c.blocks[r][w].last_touched < c.blocks[r][v].last_touched
                       \/ /\ c.blocks[r][w].last_touched = c.blocks[r][v].last_touched
                          /\ w <= v
    IN IF cand = {} THEN NoBlock
       ELSE IF inv # {} THEN <<r, CHOOSE w \in inv : \A v \in inv : w <= v>>
       ELSE <<r, best(cand)>>

\* Cache::findBlock
findBlock(c, addr, emptyOK) ==
    LET lowest(S) == CHOOSE w \in S : \A v \in S : w <= v
        pick(r, hit, empty) ==
            IF hit # {} THEN <<r, lowest(hit)>>
            ELSE IF emptyOK /\ empty # {} THEN <<r, lowest(empty)>>
            ELSE NoBlock
        inRow(r, tag) ==
            pick(r, {w \in Ways : isValid(c.blocks[r][w]) /\ c.blocks[r][w].tag = tag},
                 {w \in Ways : isInvalid(c.blocks[r][w])})
    IN inRow(findRowIdx(addr), addrToTag(addr))


(***************************************************************************)
(* The cache instance.  cfg holds the constructor's parameters and links.  *)
(***************************************************************************)
AllBlocks == {<<r, w>> : r \in Rows, w \in Ways}

NewCache(cfg) ==
    [name |-> "me",
     mode |-> cfg.mode,
     n_upstream |-> cfg.n_upstream,
     downstream_link |-> cfg.down,
     next_level |-> cfg.next_level,
     snoop_link |-> cfg.snoop,
     directory_link |-> cfg.dir,
     directories |-> cfg.directories,
     alloc |-> cfg.alloc,
     isL1 |-> FALSE,
     blocks |-> [r \in Rows |-> [w \in Ways |-> InitBlock]],
     rowWaiting |-> [r \in Rows |-> [a \in {} |-> <<>>]],
     invalidations |-> [a \in {} |-> NULL],
     waitingLoads |-> [a \in {} |-> NULL],
     supplyInProgress |-> [k \in {} |-> NULL],
     busq |-> <<>>,
     selfq |-> <<>>,
     out |-> <<>>,
     chosen |-> {},
     replayed |-> <<>>,
     issued |-> {},
     written |-> {},
     dropped |-> {},
     retried |-> <<>>,
     drains |-> <<>>,
     reloaded |-> <<>>,
     invalidated |-> {}, awaited |-> {}, reissued |-> {},
     cancelled |-> {},
     now |-> 1,
     nextId |-> 1,
     nextLi |-> 1,
     nextBus |-> 1,
     aborted |-> ""]

\* function (std::map) helpers
MapPut(m, k, v) == [x \in (DOMAIN m) \cup {k} |-> IF x = k THEN v ELSE m[x]]
MapDel(m, k) == [x \in (DOMAIN m) \ {k} |-> m[x]]
MinOf(S) == CHOOSE x \in S : \A y \in S : x <= y

UpLinks(c) == {"up0", "up1"} \cap (IF c.n_upstream = 0 THEN {}
                                     ELSE IF c.n_upstream = 1 THEN {"up0"}
                                     ELSE {"up0", "up1"})
UpLinkSeq(c) == IF c.n_upstream = 0 THEN <<>>
                ELSE IF c.n_upstream = 1 THEN <<"up0">> ELSE <<"up0", "up1">>

\* link->send(ev): the message leaves on the named link
send(c, link, ev) == [c EXCEPT !.out = Append(@, [link |-> link, ev |-> ev])]

(***************************************************************************)
(* Self link: deferred calls.  due counts the ticks left; calls that are   *)
(* due at the same time fire in the order they were sent.                  *)
(***************************************************************************)
SelfEvent(fn, ev, blk, src, li, addr) ==
    [fn |-> fn, ev |-> ev, blk |-> blk, src |-> src, li |-> li, addr |-> addr]

\* made tells the LoadInfo objects apart that the allocator puts at the same
\* address one after the other: the one a deferred call was made for
MadeFor(c, li) ==
    LET S == {a \in DOMAIN c.waitingLoads : c.waitingLoads[a].lid = li}
    IN IF li = NULL \/ S = {} THEN 0 ELSE c.waitingLoads[CHOOSE a \in S : TRUE].made

selfSend(c, delay, se) ==
    [c EXCEPT !.selfq = Append(@, [due |-> delay, call |-> se,
                                   made |-> MadeFor(c, se.li)])]

(***************************************************************************)
(* Snoop bus queue (BusQueue): request, cancelRequest, clearToSend.        *)
(***************************************************************************)
Handler(fn, blk, src, fake, newStatus, decrementLock, li) ==
    [fn |-> fn, blk |-> blk, src |-> src, fake |-> fake,
     newStatus |-> newStatus, decrementLock |-> decrementLock, li |-> li]
NoHandler == Handler("none", NoBlock, "", FALSE, "", FALSE, NULL)

\* snoopBusQueue.request(ev, finish, init); the handle names the request
busRequest(c, ev, finish, init) ==
    [c EXCEPT !.busq = Append(@, [h |-> c.nextBus, ev |-> ev,
                                  finish |-> finish, init |-> init]),
              !.nextBus = @ + 1]

\* the handle the next request will get
busHandle(c) == c.nextBus

\* snoopBusQueue.cancelRequest(ev): the request leaves the queue if it is
\* still there
busCancel(c, h) ==
    [c EXCEPT !.busq = SelectIdx(@, 1, {i \in 1..Len(@) : @[i].h # h})]

busHandlers(c, h) ==
    LET S == {i \in 1..Len(c.busq) : c.busq[i].h = h}
    IN IF S = {} THEN [finish |-> NoHandler, init |-> NoHandler]
       ELSE [finish |-> c.busq[MinOf(S)].finish, init |-> c.busq[MinOf(S)].init]


(***************************************************************************)
(* Tables: invalidations (std::map<Addr, Invalidation>), waitingLoads      *)
(* (LoadList_t) and supplyInProgress (supplyMap_t).                        *)
(***************************************************************************)
NewInvalidation ==
    [waitingACKs |-> 0, issuingEvent |-> NO_ID, block |-> NoBlock,
     newStatus |-> "INVALID", canCancel |-> FALSE, busEvent |-> NULL,
     waitingEvents |-> <<>>]

\* invalidations[addr]: operator[] inserts a default record when absent
invAt(c, addr) ==
    IF addr \in DOMAIN c.invalidations THEN c
    ELSE [c EXCEPT !.invalidations = MapPut(@, addr, NewInvalidation)]

NewLoadInfo(addr, lid) ==
    [addr |-> addr, lid |-> lid, initiatingEvent |-> NO_ID,
     targetBlock |-> NoBlock, loadDirection |-> "SEND_DOWN", list |-> <<>>,
     busEvent |-> NULL, made |-> 0]

LoadElement(ev, src) == [ev |-> ev, src |-> src]

SupplyInfo(busEvent) == [busEvent |-> busEvent, canceled |-> FALSE]

\* Cache::waitingForInvalidate
waitingForInvalidate(c, addr) == addr \in DOMAIN c.invalidations

\* the address of the live LoadInfo a pointer refers to, or -1 when freed
liAddr(c, lid) ==
    LET S == {a \in DOMAIN c.waitingLoads : c.waitingLoads[a].lid = lid}
    IN IF S = {} THEN -1 ELSE MinOf(S)

\* new LoadInfo_t: the allocator hands out a fresh pointer, or the address
\* of a LoadInfo that was deleted before
newLid(c) ==
    IF c.alloc = "fresh" THEN c.nextLi
    ELSE MinOf({n \in 1..(Cardinality(DOMAIN c.waitingLoads) + 1) :
                   \A a \in DOMAIN c.waitingLoads : c.waitingLoads[a].lid # n})

\* CacheRow::addWaitingEvent
addWaitingEvent(c, r, ev, src) ==
    LET a == addrToBlockAddr(ev.addr)
        q == IF a \in DOMAIN c.rowWaiting[r] THEN c.rowWaiting[r][a] ELSE <<>>
    IN [c EXCEPT !.rowWaiting[r] = MapPut(@, a, Append(q, [ev |-> ev, src |-> src]))]

\* the call of method fn on cache c with the arguments a (defined below)
RECURSIVE Call(_, _, _)
\* the retry of a held event, with the place it takes on the self link
Retried(c, e) ==
    [c EXCEPT !.retried = Append(@, [ev |-> e.ev.id, src |-> e.src,
                                     at |-> Len(c.selfq) + 1])]

\* the queue a handler starts to drain: its retries follow in c.retried
Drained(c, kind, key, q) ==
    [c EXCEPT !.drains = Append(@, [kind |-> kind, key |-> key,
                                    from |-> Len(c.retried) + 1, n |-> Len(q)])]

\* a drain that takes the events from the back of the queue
RetryAll_Backwards(c, q, i) ==
    IF i > Len(q) THEN c
    ELSE Call("RetryAll", selfSend(Retried(c, q[Len(q) + 1 - i]), 1,
                                   SelfEvent("retryEvent", q[Len(q) + 1 - i].ev, NoBlock,
                                             q[Len(q) + 1 - i].src, NULL, 0)),
              <<q, i + 1>>)

RetryAll(c, q, i) ==
    IF i > Len(q) THEN c
    ELSE Call("RetryAll", selfSend(Retried(c, q[i]), 1,
                                   SelfEvent("retryEvent", q[i].ev, NoBlock,
                                             q[i].src, NULL, 0)), <<q, i + 1>>)

\* Cache::handlePendingEvents(row, block)
handlePendingEvents(c, r, b) ==
    LET W == c.rowWaiting[r]
        key == IF b # NoBlock THEN Blk(c, b).baseAddr ELSE MinOf(DOMAIN W)
    IN IF DOMAIN W = {} THEN c
       ELSE IF key \notin DOMAIN W THEN c
       ELSE [Call("RetryAll", Drained(c, "row", <<r, key>>, W[key]), <<W[key], 1>>)
                EXCEPT !.rowWaiting[r] = MapDel(W, key)]

\* the event whose payload updateBlock copies into block b, with the status
\* the block has then
Wrote(c, ev, b) ==
    [c EXCEPT !.written = @ \cup {[id |-> ev.id, cmd |-> ev.cmd, block |-> b,
                                   status |-> Blk(c, b).status]}]

\* Cache::updateBlock
updateBlock(c0, ev, b) ==
    LET c == Wrote(c0, ev, b)
        blk == Blk(c, b)
        blockoffset == IF ev.addr <= blk.baseAddr THEN 0 ELSE ev.addr - blk.baseAddr
        payloadoffset == IF ev.addr >= blk.baseAddr THEN 0 ELSE blk.baseAddr - ev.addr
        n == IF blocksize < ev.size THEN blocksize ELSE ev.size
        whole == [i \in 1..blocksize |->
                    IF i <= Len(ev.payload) THEN ev.payload[i] ELSE blk.data[i]]
        part == [i \in 1..blocksize |->
                    IF i - 1 >= blockoffset /\ i - 1 < blockoffset + n
                    THEN ev.payload[payloadoffset + (i - 1 - blockoffset) + 1]
                    ELSE blk.data[i]]
    IN IF ev.size = blocksize
       THEN touch(SetBlk(c, b, "data", whole), b)
       ELSE IF blockoffset + n > blocksize
            THEN Abort(c, "ASSERT(blockoffset+i < blocksize)")
       ELSE touch(SetBlk(c, b, "data", part), b)

\* Cache::makeCPUResponse
makeCPUResponse(c, ev, b) ==
    LET offset == ev.addr - Blk(c, b).baseAddr
        resp == makeResponse(c, ev)
    IN IF ev.cmd = "ReadReq"
       THEN [resp EXCEPT !.payload = SubSeq(Blk(c, b).data, offset + 1, offset + ev.size)]
       ELSE resp

splitRequest(c, ev, b) == (ev.addr - Blk(c, b).baseAddr) + ev.size > blocksize

\* Cache::sendCPUResponse: CPU is always upstream link 0
sendCPUResponse(c, ev) ==
    Call("handlePendingEvents", send(c, "up0", ev), <<findRowIdx(ev.addr), NoBlock>>)

\* findTargetDirectory that takes an offset equal to the interleave size
RECURSIVE findTargetDirectory_OffsetAtSize(_, _, _)
findTargetDirectory_OffsetAtSize(dirs, i, addr) ==
    IF i > Len(dirs) THEN ""
    ELSE LET di == dirs[i]
         IN IF addr >= di.rangeStart /\ addr < di.rangeEnd
               /\ (\/ di.interleaveSize = 0
                   \/ ((addr - di.rangeStart) % di.interleaveStep) <= di.interleaveSize)
            THEN di.name
            ELSE findTargetDirectory_OffsetAtSize(dirs, i + 1, addr)

\* Cache::findTargetDirectory over the snapshotted list of directories
RECURSIVE findTargetDirectory(_, _, _)
findTargetDirectory(dirs, i, addr) ==
    IF i > Len(dirs) THEN ""
    ELSE LET di == dirs[i]
         IN IF addr >= di.rangeStart /\ addr < di.rangeEnd
               /\ (\/ di.interleaveSize = 0
                   \/ ((addr - di.rangeStart) % di.interleaveStep) < di.interleaveSize)
            THEN di.name
            ELSE findTargetDirectory(dirs, i + 1, addr)


(***************************************************************************)
(* Writeback.                                                              *)
(***************************************************************************)
WritebackEvent(c, b) ==
    [MemEvent(c, Blk(c, b).baseAddr, "SupplyData") EXCEPT
        !.flags = {"WRITEBACK"}, !.payload = Blk(c, b).data, !.size = blocksize]

\* Cache::finishWritebackBlock
finishWritebackBlock(c, b, newStatus, decrementLock) ==
    LET r == findRowIdx(Blk(c, b).baseAddr)
        unlocked(x) == IF decrementLock THEN unlock(x, b) ELSE x
        toLower(x) == IF x.downstream_link THEN send(x, "down", WritebackEvent(x, b)) ELSE x
        toDirectory(x) == IF x.directory_link THEN send(x, "dir", WritebackEvent(x, b)) ELSE x
        done(x) ==
            IF newStatus = "INVALID"
            THEN IF isLocked(Blk(x, b))
                 THEN Abort(x, "ASSERT(!block->isLocked())")
                 ELSE Call("handlePendingEvents", x, <<r, NoBlock>>)
            ELSE Call("handlePendingEvents", x, <<r, b>>)
    IN done(SetBlk(toDirectory(toLower(unlocked(SetBlk(c, b, "wb_in_progress", FALSE)))),
                   b, "status", newStatus))

\* writebackBlock without the test of wb_in_progress
writebackBlock_Again(c, b, newStatus) ==
    LET c1 == SetBlk(c, b, "wb_in_progress", TRUE)
    IN IF c1.snoop_link
       THEN busRequest(lock(c1, b), WritebackEvent(c1, b),
                Handler("finishWritebackBlockVA", b, "", FALSE, newStatus, TRUE, NULL),
                Handler("prepWritebackBlock", b, "", FALSE, "", FALSE, NULL))
       ELSE Call("finishWritebackBlock", c1, <<b, newStatus, FALSE>>)

\* Cache::writebackBlock
writebackBlock(c, b, newStatus) ==
    IF Blk(c, b).wb_in_progress THEN c
    ELSE LET c1 == SetBlk(c, b, "wb_in_progress", TRUE)
         IN IF c1.snoop_link
            THEN busRequest(lock(c1, b), WritebackEvent(c1, b),
                     Handler("finishWritebackBlockVA", b, "", FALSE, newStatus, TRUE, NULL),
                     Handler("prepWritebackBlock", b, "", FALSE, "", FALSE, NULL))
            ELSE Call("finishWritebackBlock", c1, <<b, newStatus, FALSE>>)

(***************************************************************************)
(* The dispatcher is re-entered by the handlers that replay held events.   *)
(***************************************************************************)

\* the dispatch of a held event of invalidation inv, with the target block
\* and the table as the event finds them
Replayed(c, inv, e, first) ==
    [c EXCEPT !.replayed =
        Append(@, [inv |-> inv.issuingEvent, ev |-> e.ev.id, src |-> e.src,
                   first |-> first,
                   status |-> IF inv.block # NoBlock THEN Blk(c, inv.block).status ELSE "",
                   locked |-> IF inv.block # NoBlock THEN Blk(c, inv.block).locked ELSE 0,
                   records |-> DOMAIN c.invalidations])]

\* the replay loop with firstPhaseComplete = true for every event
ReplayWaiting_AllFirst(c, inv, i) ==
    LET q == inv.waitingEvents
    IN IF i > Len(q) \/ c.aborted # "" THEN c
       ELSE Call("ReplayWaiting",
                 Call("handleIncomingEvent", Replayed(c, inv, q[i], TRUE),
                      <<q[i].ev, q[i].src, FALSE, TRUE>>),
                 <<inv, i + 1>>)

\* the replay loop of finishIssueInvalidate
ReplayWaiting(c, inv, i) ==
    LET q == inv.waitingEvents
        first == (i = 1)
    IN IF i > Len(q) \/ c.aborted # "" THEN c
       ELSE Call("ReplayWaiting",
                 Call("handleIncomingEvent", Replayed(c, inv, q[i], first),
                      <<q[i].ev, q[i].src, FALSE, first>>),
                 <<inv, i + 1>>)

\* Cache::finishIssueInvalidate
finishIssueInvalidate(c, addr) ==
    LET c0 == invAt(c, addr)
        inv == c0.invalidations[addr]
        b == inv.block
        c1 == IF b # NoBlock THEN SetBlk(unlock(c0, b), b, "status", inv.newStatus) ELSE c0
        c2 == [c1 EXCEPT !.invalidations = MapDel(@, addr)]
    IN IF inv.waitingACKs # 0
       THEN Abort(c0, "ASSERT(invalidations[addr].waitingACKs == 0)")
       ELSE Call("ReplayWaiting", c2, <<inv, 1>>)

InvalidateEvent(c, addr) ==
    [MemEvent(c, addr, "Invalidate") EXCEPT !.id = <<c.nextId, c.name>>]

\* the loop over the upstream links of issueInvalidate
InvalidateUp(c, links, i, ev, addr) ==
    IF i > Len(links) THEN c
    ELSE IF links[i] # ev.link \/ addrToBlockAddr(ev.addr) # addr
         THEN Call("InvalidateUp", [send(c, links[i], InvalidateEvent(c, addr)) EXCEPT
                     !.invalidations[addr].waitingACKs = @ + 1], <<links, i + 1, ev, addr>>)
         ELSE Call("InvalidateUp", c, <<links, i + 1, ev, addr>>)

\* the record of an invalidation that has been issued, or holds events
InProgress(c, addr) ==
    /\ addr \in DOMAIN c.invalidations
    /\ \/ c.invalidations[addr].issuingEvent # NO_ID
       \/ c.invalidations[addr].waitingEvents # <<>>

\* issueInvalidate found c0 with a record in progress for addr and wrote over it
Reissued(c0, c1, addr) ==
    IF InProgress(c0, addr)
    THEN [c1 EXCEPT !.reissued = @ \cup {[addr |-> addr, was |-> c0.invalidations[addr]]}]
    ELSE c1

\* the Invalidate issueInvalidate has sent for addr, with the ACKs it expects
Issued(c, ev, addr, direction) ==
    [c EXCEPT !.issued = @ \cup
        {[id |-> c.invalidations[addr].issuingEvent, addr |-> addr,
          direction |-> direction, link |-> ev.link,
          evAddr |-> addrToBlockAddr(ev.addr),
          acks |-> c.invalidations[addr].waitingACKs]}]

\* issueInvalidate that does not count the copy it puts on the snoop bus
issueInvalidate_BusUncounted(c, ev, src, addr, direction, cancelable) ==
    LET invalidateEvent == InvalidateEvent(c, addr)
        down == direction \in {"SEND_DOWN", "SEND_BOTH"}
        \* one more ACK to wait for
        counted(x) == [x EXCEPT !.invalidations[addr].waitingACKs = @ + 1]
        record(x) ==
            [x EXCEPT !.invalidations[addr].waitingEvents =
                          Append(@, [ev |-> ev, src |-> src]),
                      !.invalidations[addr].waitingACKs = 0,
                      !.invalidations[addr].canCancel = cancelable,
                      !.invalidations[addr].issuingEvent = invalidateEvent.id]
        onBus(x) ==
            IF x.snoop_link
            THEN [busRequest(x, invalidateEvent, NoHandler, NoHandler)
                     EXCEPT !.invalidations[addr].busEvent = busHandle(x)]
            ELSE x
        toLower(x) ==
            IF down /\ x.downstream_link /\ x.next_level
            THEN counted(send(x, "down", invalidateEvent)) ELSE x
        toDirectory(x) ==
            IF down /\ x.directory_link
            THEN counted(send(x, "dir", invalidateEvent)) ELSE x
        toUpper(x) ==
            IF direction \in {"SEND_UP", "SEND_BOTH"}
            THEN Call("InvalidateUp", x, <<UpLinkSeq(x), 1, ev, addr>>)
            ELSE x
        done(x) ==
            IF x.invalidations[addr].waitingACKs = 0
            THEN Call("finishIssueInvalidate", Issued(x, ev, addr, direction), <<addr>>)
            ELSE Issued(x, ev, addr, direction)
    IN Reissued(c, done([toUpper(toDirectory(toLower(onBus(record(invAt(c, addr))))))
                            EXCEPT !.nextId = @ + 1]), addr)

\* Cache::issueInvalidate(ev, src, addr, direction, cancelable)
issueInvalidate(c, ev, src, addr, direction, cancelable) ==
    LET invalidateEvent == InvalidateEvent(c, addr)
        down == direction \in {"SEND_DOWN", "SEND_BOTH"}
        \* one more ACK to wait for
        counted(x) == [x EXCEPT !.invalidations[addr].waitingACKs = @ + 1]
        record(x) ==
            [x EXCEPT !.invalidations[addr].waitingEvents =
                          Append(@, [ev |-> ev, src |-> src]),
                      !.invalidations[addr].waitingACKs = 0,
                      !.invalidations[addr].canCancel = cancelable,
                      !.invalidations[addr].issuingEvent = invalidateEvent.id]
        onBus(x) ==
            IF x.snoop_link
            THEN [counted(busRequest(x, invalidateEvent, NoHandler, NoHandler))
                     EXCEPT !.invalidations[addr].busEvent = busHandle(x)]
            ELSE x
        toLower(x) ==
            IF down /\ x.downstream_link /\ x.next_level
            THEN counted(send(x, "down", invalidateEvent)) ELSE x
        toDirectory(x) ==
            IF down /\ x.directory_link
            THEN counted(send(x, "dir", invalidateEvent)) ELSE x
        toUpper(x) ==
            IF direction \in {"SEND_UP", "SEND_BOTH"}
            THEN Call("InvalidateUp", x, <<UpLinkSeq(x), 1, ev, addr>>)
            ELSE x
        done(x) ==
            IF x.invalidations[addr].waitingACKs = 0
            THEN Call("finishIssueInvalidate", Issued(x, ev, addr, direction), <<addr>>)
            ELSE Issued(x, ev, addr, direction)
    IN Reissued(c, done([toUpper(toDirectory(toLower(onBus(record(invAt(c, addr))))))
                            EXCEPT !.nextId = @ + 1]), addr)

\* Cache::issueInvalidate(ev, src, block, newStatus, direction, cancelable)
issueInvalidateBlock(c, ev, src, b, newStatus, direction, cancelable) ==
    LET addr == Blk(c, b).baseAddr
        c1 == invAt(lock(c, b), addr)
        c2 == [c1 EXCEPT !.invalidations[addr].block = b,
                         !.invalidations[addr].newStatus = newStatus]
    IN Call("issueInvalidate", c2, <<ev, src, addr, direction, cancelable>>)

\* the default of the parameter cancelable
DefaultCancelable == TRUE

\* Cache::cancelInvalidate
cancelInvalidateOk(c, b) == c.invalidations[Blk(c, b).baseAddr].canCancel

\* the events a cancelled invalidation held
Cancelled(c, q) ==
    [c EXCEPT !.cancelled = @ \cup {q[i].ev.id : i \in 1..Len(q)}]

\* cancelInvalidate that forgets the events the invalidation held
cancelInvalidate_DropsHeld(c, b) ==
    LET addr == Blk(c, b).baseAddr
        inv == c.invalidations[addr]
        c1 == busCancel(c, inv.busEvent)
        c2 == IF inv.block = b THEN unlock(c1, b) ELSE c1
        c3 == Cancelled([c2 EXCEPT !.invalidations = MapDel(@, addr)],
                        inv.waitingEvents)
    IN IF inv.canCancel THEN c3 ELSE c

cancelInvalidate(c, b) ==
    LET addr == Blk(c, b).baseAddr
        inv == c.invalidations[addr]
        c1 == busCancel(c, inv.busEvent)
        c2 == IF inv.block = b THEN unlock(c1, b) ELSE c1
        c3 == Cancelled([c2 EXCEPT !.invalidations = MapDel(@, addr)],
                        inv.waitingEvents)
    IN IF inv.canCancel
       THEN Call("RetryAll", Drained(c3, "inv", <<addr>>, inv.waitingEvents),
                 <<inv.waitingEvents, 1>>)
       ELSE c

\* Cache::ackInvalidate
ackInvalidate(c, ev) ==
    LET addr == ev.addr
        c0 == invAt(c, addr)
        remaining == c0.invalidations[addr].waitingACKs - 1
        c1 == [c0 EXCEPT !.invalidations[addr].waitingACKs = remaining]
    IN IF ev.respTo = c0.invalidations[addr].issuingEvent \/ ev.src = c.name
       THEN IF remaining < 0 THEN Abort(c1, "ASSERT(remaining >= 0)")
            ELSE IF remaining = 0 THEN Call("finishIssueInvalidate", c1, <<addr>>)
            ELSE c1
       ELSE c0

\* Cache::sendInvalidateACK
sendInvalidateACK(c, ev, src) ==
    LET resp == makeResponse(c, ev)
    IN CASE src = "UPSTREAM" -> send(c, ev.link, resp)
         [] src = "DOWNSTREAM" -> send(c, "down", resp)
         [] src = "DIRECTORY" -> send(c, "dir", resp)
         [] OTHER -> Abort(c, "sendInvalidateACK: no ACK for this source")


(***************************************************************************)
(* Loads.                                                                  *)
(***************************************************************************)
RequestDataEvent(c, addr, dst) ==
    [MemEvent(c, addr, "RequestData") EXCEPT !.size = blocksize, !.dst = dst]

\* Cache::initLoad: the record for the block address, created when absent
initLoad(c, ev) ==
    LET blockAddr == addrToBlockAddr(ev.addr)
    IN IF blockAddr \in DOMAIN c.waitingLoads THEN c
       ELSE [c EXCEPT !.waitingLoads =
                         MapPut(@, blockAddr,
                                [NewLoadInfo(blockAddr, newLid(c)) EXCEPT
                                    !.initiatingEvent = ev.id,
                                    !.made = c.nextLi]),
                      !.nextLi = @ + 1]

\* the block a load has taken as its victim, as getLRU handed it over
Chose(c, b) ==
    [c EXCEPT !.chosen = @ \cup {[block |-> b, locked |-> Blk(c, b).locked,
                                  status |-> Blk(c, b).status]}]

\* loadBlock that leaves the block it assigns unlocked
loadBlock_NoLock(c, ev, src) ==
    LET blockAddr == addrToBlockAddr(ev.addr)
        reprocess == blockAddr \in DOMAIN c.waitingLoads
        r == findRowIdx(ev.addr)
        elem == LoadElement(ev, src)
        \* Simple Load
        assign(c1, b, lid) ==
            [SetBlk(activate(c1, b, ev.addr), b, "loadInfo", lid) EXCEPT
                !.waitingLoads[blockAddr].loadDirection = "SEND_DOWN",
                !.waitingLoads[blockAddr].targetBlock = b,
                !.waitingLoads[blockAddr].list =
                    IF reprocess THEN <<elem>> \o @ ELSE Append(@, elem)]
        onBlock(c1, b) ==
            LET li == c1.waitingLoads[blockAddr]
            IN IF reprocess /\ li.initiatingEvent # ev.id
               THEN [c1 EXCEPT !.waitingLoads[blockAddr].list = Append(@, elem)]
               ELSE IF b = NoBlock THEN addWaitingEvent(c1, r, ev, src)
               ELSE IF c1.mode = "INCLUSIVE" /\ Blk(c1, b).status # "INVALID"
                    THEN Call("issueInvalidateBlock", Chose(c1, b),
                              <<ev, src, b, "INVALID", "SEND_UP", DefaultCancelable>>)
               ELSE IF Blk(c1, b).status = "EXCLUSIVE"
                    THEN Call("writebackBlock", addWaitingEvent(Chose(c1, b), r, ev, src),
                              <<b, "INVALID">>)
               ELSE selfSend(assign(Chose(c1, b), b, li.lid), 1,
                             SelfEvent("finishLoadBlock", NoEvent, b, "", li.lid,
                                       addrToBlockAddr(ev.addr)))
    IN onBlock(Call("initLoad", c, <<ev>>), getLRU(c, r))

\* loadBlock that starts a load of its own for every miss
loadBlock_NoCoalescing(c, ev, src) ==
    LET blockAddr == addrToBlockAddr(ev.addr)
        reprocess == blockAddr \in DOMAIN c.waitingLoads
        r == findRowIdx(ev.addr)
        elem == LoadElement(ev, src)
        \* Simple Load
        assign(c1, b, lid) ==
            [SetBlk(lock(activate(c1, b, ev.addr), b), b, "loadInfo", lid) EXCEPT
                !.waitingLoads[blockAddr].loadDirection = "SEND_DOWN",
                !.waitingLoads[blockAddr].targetBlock = b,
                !.waitingLoads[blockAddr].list =
                    IF reprocess THEN <<elem>> \o @ ELSE Append(@, elem)]
        onBlock(c1, b) ==
            LET li == c1.waitingLoads[blockAddr]
            IN IF FALSE
               THEN [c1 EXCEPT !.waitingLoads[blockAddr].list = Append(@, elem)]
               ELSE IF b = NoBlock THEN addWaitingEvent(c1, r, ev, src)
               ELSE IF c1.mode = "INCLUSIVE" /\ Blk(c1, b).status # "INVALID"
                    THEN Call("issueInvalidateBlock", Chose(c1, b),
                              <<ev, src, b, "INVALID", "SEND_UP", DefaultCancelable>>)
               ELSE IF Blk(c1, b).status = "EXCLUSIVE"
                    THEN Call("writebackBlock", addWaitingEvent(Chose(c1, b), r, ev, src),
                              <<b, "INVALID">>)
               ELSE selfSend(assign(Chose(c1, b), b, li.lid), 1,
                             SelfEvent("finishLoadBlock", NoEvent, b, "", li.lid,
                                       addrToBlockAddr(ev.addr)))
    IN onBlock(Call("initLoad", c, <<ev>>), getLRU(c, r))

\* Cache::loadBlock
loadBlock(c, ev, src) ==
    LET blockAddr == addrToBlockAddr(ev.addr)
        reprocess == blockAddr \in DOMAIN c.waitingLoads
        r == findRowIdx(ev.addr)
        elem == LoadElement(ev, src)
        \* Simple Load
        assign(c1, b, lid) ==
            [SetBlk(lock(activate(c1, b, ev.addr), b), b, "loadInfo", lid) EXCEPT
                !.waitingLoads[blockAddr].loadDirection = "SEND_DOWN",
                !.waitingLoads[blockAddr].targetBlock = b,
                !.waitingLoads[blockAddr].list =
                    IF reprocess THEN <<elem>> \o @ ELSE Append(@, elem)]
        onBlock(c1, b) ==
            LET li == c1.waitingLoads[blockAddr]
            IN IF reprocess /\ li.initiatingEvent # ev.id
               THEN [c1 EXCEPT !.waitingLoads[blockAddr].list = Append(@, elem)]
               ELSE IF b = NoBlock THEN addWaitingEvent(c1, r, ev, src)
               ELSE IF c1.mode = "INCLUSIVE" /\ Blk(c1, b).status # "INVALID"
                    THEN Call("issueInvalidateBlock", Chose(c1, b),
                              <<ev, src, b, "INVALID", "SEND_UP", DefaultCancelable>>)
               ELSE IF Blk(c1, b).status = "EXCLUSIVE"
                    THEN Call("writebackBlock", addWaitingEvent(Chose(c1, b), r, ev, src),
                              <<b, "INVALID">>)
               ELSE selfSend(assign(Chose(c1, b), b, li.lid), 1,
                             SelfEvent("finishLoadBlock", NoEvent, b, "", li.lid,
                                       addrToBlockAddr(ev.addr)))
    IN onBlock(Call("initLoad", c, <<ev>>), getLRU(c, r))

\* the loop over the upstream links of finishLoadBlock
RequestUp(c, links, i, addr) ==
    IF i > Len(links) THEN c
    ELSE Call("RequestUp", send(c, links[i], RequestDataEvent(c, addr, "")), <<links, i + 1, addr>>)

\* the snoop-bus branch of finishLoadBlock
requestLoadOnBus(c, la, addr) ==
    [busRequest(c, RequestDataEvent(c, addr, IF c.next_level THEN "next" ELSE ""),
                Handler("finishLoadBlockBus", NoBlock, "", FALSE, "", FALSE,
                        c.waitingLoads[la].lid),
                NoHandler)
     EXCEPT !.waitingLoads[la].busEvent = busHandle(c)]

\* Cache::finishLoadBlock(li, addr, block)
finishLoadBlock(c, lid, addr, b) ==
    LET blk == Blk(c, b)
        la == liAddr(c, lid)
        dirUp == la # -1 /\ c.waitingLoads[la].loadDirection = "SEND_UP"
        skip == \/ (~(blk.status = "DIRTY" /\ dirUp) /\ blk.status # "ASSIGNED")
                \/ blk.baseAddr # addr
                \/ lid # blk.loadInfo
        dst == findTargetDirectory(c.directories, 1, blk.baseAddr)
    IN IF skip THEN c
       ELSE IF la = -1 THEN Abort(c, "finishLoadBlock uses a deleted LoadInfo")
       ELSE IF dirUp
            THEN IF c.n_upstream > 0 /\ ~c.isL1
                 THEN Call("RequestUp", c, <<UpLinkSeq(c), 1, blk.baseAddr>>)
                 ELSE IF c.snoop_link THEN Call("requestLoadOnBus", c, <<la, blk.baseAddr>>)
                 ELSE c
       ELSE IF c.downstream_link
            THEN send(c, "down", RequestDataEvent(c, blk.baseAddr, ""))
       ELSE IF c.directory_link
            THEN IF dst = "" THEN Abort(c, "Unable to find directory for address")
                 ELSE send(c, "dir", RequestDataEvent(c, blk.baseAddr, dst))
       ELSE IF c.snoop_link THEN Call("requestLoadOnBus", c, <<la, blk.baseAddr>>)
       ELSE c

\* Cache::finishLoadBlockBus
finishLoadBlockBus(c, lid) ==
    LET la == liAddr(c, lid)
    IN IF la = -1 THEN c ELSE [c EXCEPT !.waitingLoads[la].busEvent = NULL]

(***************************************************************************)
(* CPU requests.                                                           *)
(***************************************************************************)
respondToCPU(c, ev, b) ==
    IF splitRequest(c, ev, b) THEN Abort(c, "Cache doesn't handle split requests")
    ELSE selfSend(c, 1, SelfEvent("sendCPUResponse", makeCPUResponse(c, ev, b),
                                  NoBlock, "UPSTREAM", NULL, 0))

queueOnInvalidate(c, addr, ev, src) ==
    [c EXCEPT !.invalidations[addr].waitingEvents = Append(@, [ev |-> ev, src |-> src])]

snoopSupplyActive(c, addr) ==
    /\ <<addr, "SNOOP">> \in DOMAIN c.supplyInProgress
    /\ ~c.supplyInProgress[<<addr, "SNOOP">>].canceled

\* handleCPURequest that writes into every block the store hits
handleCPURequest_WritesShared(c, ev, firstProcess) ==
    LET isRead == ev.cmd = "ReadReq"
        lockedFlag == "LOCKED" \in ev.flags
        retry == SelfEvent("retryEvent", ev, NoBlock, "UPSTREAM", NULL, 0)
        onBlock(c0, b) ==
            LET blk == Blk(c0, b)
                addr == blk.baseAddr
                cLock == [c0 EXCEPT !.blocks[b[1]][b[2]].user_locked = @ + 1,
                                    !.blocks[b[1]][b[2]].user_lock_needs_wb = FALSE]
                \* the locked store releases the user lock
                release(x) ==
                    IF Blk(x, b).user_locked = 0 /\ blk.user_lock_needs_wb
                    THEN Call("writebackBlock", x, <<b, "SHARED">>)
                    ELSE x
                written(x) ==
                    IF blk.user_locked > 0 /\ lockedFlag
                    THEN release(SetBlk(x, b, "user_locked", blk.user_locked - 1))
                    ELSE x
            IN IF lockedFlag /\ ~isRead /\ (b = NoBlock \/ blk.status # "EXCLUSIVE")
               THEN Abort(c0, "assert(block->status == CacheBlock::EXCLUSIVE)")
               ELSE IF b = NoBlock THEN Call("loadBlock", c0, <<ev, "UPSTREAM">>)
               ELSE IF isRead
                    THEN IF waitingForInvalidate(c0, addr)
                         THEN touch(Call("queueOnInvalidate", c0, <<addr, ev, "UPSTREAM">>), b)
                         ELSE IF lockedFlag /\ blk.status # "EXCLUSIVE"
                              THEN touch(Call("issueInvalidateBlock", c0,
                                              <<ev, "UPSTREAM", b, "EXCLUSIVE",
                                                "SEND_BOTH", DefaultCancelable>>), b)
                         ELSE IF lockedFlag
                              THEN IF blk.wb_in_progress \/ snoopSupplyActive(c0, addr)
                                   THEN selfSend(c0, 1, retry)
                                   ELSE touch(Call("respondToCPU", cLock, <<ev, b>>), b)
                         ELSE touch(Call("respondToCPU", c0, <<ev, b>>), b)
               ELSE IF isValid(blk)
                    THEN touch(written(Call("respondToCPU", updateBlock(c0, ev, b),
                                            <<ev, b>>)), b)
               ELSE IF waitingForInvalidate(c0, addr)
                    THEN touch(Call("queueOnInvalidate", c0, <<addr, ev, "UPSTREAM">>), b)
               ELSE touch(Call("issueInvalidateBlock", c0,
                               <<ev, "UPSTREAM", b, "EXCLUSIVE", "SEND_BOTH",
                                 DefaultCancelable>>), b)
    IN onBlock([c EXCEPT !.isL1 = TRUE], findBlock(c, ev.addr, FALSE))

\* Cache::handleCPURequest
handleCPURequest(c, ev, firstProcess) ==
    LET isRead == ev.cmd = "ReadReq"
        lockedFlag == "LOCKED" \in ev.flags
        retry == SelfEvent("retryEvent", ev, NoBlock, "UPSTREAM", NULL, 0)
        onBlock(c0, b) ==
            LET blk == Blk(c0, b)
                addr == blk.baseAddr
                cLock == [c0 EXCEPT !.blocks[b[1]][b[2]].user_locked = @ + 1,
                                    !.blocks[b[1]][b[2]].user_lock_needs_wb = FALSE]
                \* the locked store releases the user lock
                release(x) ==
                    IF Blk(x, b).user_locked = 0 /\ blk.user_lock_needs_wb
                    THEN Call("writebackBlock", x, <<b, "SHARED">>)
                    ELSE x
                written(x) ==
                    IF blk.user_locked > 0 /\ lockedFlag
                    THEN release(SetBlk(x, b, "user_locked", blk.user_locked - 1))
                    ELSE x
            IN IF lockedFlag /\ ~isRead /\ (b = NoBlock \/ blk.status # "EXCLUSIVE")
               THEN Abort(c0, "assert(block->status == CacheBlock::EXCLUSIVE)")
               ELSE IF b = NoBlock THEN Call("loadBlock", c0, <<ev, "UPSTREAM">>)
               ELSE IF isRead
                    THEN IF waitingForInvalidate(c0, addr)
                         THEN touch(Call("queueOnInvalidate", c0, <<addr, ev, "UPSTREAM">>), b)
                         ELSE IF lockedFlag /\ blk.status # "EXCLUSIVE"
                              THEN touch(Call("issueInvalidateBlock", c0,
                                              <<ev, "UPSTREAM", b, "EXCLUSIVE",
                                                "SEND_BOTH", DefaultCancelable>>), b)
                         ELSE IF lockedFlag
                              THEN IF blk.wb_in_progress \/ snoopSupplyActive(c0, addr)
                                   THEN selfSend(c0, 1, retry)
                                   ELSE touch(Call("respondToCPU", cLock, <<ev, b>>), b)
                         ELSE touch(Call("respondToCPU", c0, <<ev, b>>), b)
               ELSE IF blk.status = "EXCLUSIVE"
                    THEN touch(written(Call("respondToCPU", updateBlock(c0, ev, b),
                                            <<ev, b>>)), b)
               ELSE IF waitingForInvalidate(c0, addr)
                    THEN touch(Call("queueOnInvalidate", c0, <<addr, ev, "UPSTREAM">>), b)
               ELSE touch(Call("issueInvalidateBlock", c0,
                               <<ev, "UPSTREAM", b, "EXCLUSIVE", "SEND_BOTH",
                                 DefaultCancelable>>), b)
    IN onBlock([c EXCEPT !.isL1 = TRUE], findBlock(c, ev.addr, FALSE))


(***************************************************************************)
(* Supplying data to a peer (RequestData).                                 *)
(***************************************************************************)
\* Cache::handleCacheRequestEvent
handleCacheRequestEvent(c, ev, src, firstProcess) ==
    LET onBlock(b) ==
            LET blk == Blk(c, b)
                key == <<blk.baseAddr, src>>
                c1 == [c EXCEPT !.supplyInProgress = MapPut(@, key, SupplyInfo(NULL))]
            IN IF b # NoBlock
               THEN IF blk.status = "DIRTY"
                    THEN IF src = "SNOOP" THEN c
                         ELSE Abort(c, "assert(false): request for a Dirty block")
                    ELSE IF key \in DOMAIN c.supplyInProgress
                            /\ ~c.supplyInProgress[key].canceled
                         THEN c
                    ELSE IF waitingForInvalidate(c, blk.baseAddr)
                         THEN Call("queueOnInvalidate", c, <<blk.baseAddr, ev, src>>)
                    ELSE IF blk.wb_in_progress THEN c
                    ELSE selfSend(touch(lock(c1, b), b), 1,
                                  SelfEvent("supplyData", ev, b, src, NULL, 0))
               ELSE IF src = "DOWNSTREAM" THEN c
               ELSE IF src # "SNOOP" \/ ev.dst = c.name
                    THEN Call("loadBlock", c, <<ev, src>>)
               ELSE c
    IN IF src = "SNOOP" /\ ev.src = c.name THEN c
       ELSE IF ev.size # blocksize
            THEN Abort(c, "not all cache line/block sizes are equal")
       ELSE onBlock(findBlock(c, ev.addr, FALSE))

SupplyEvent(c, b, delayed) ==
    [MemEvent(c, Blk(c, b).baseAddr, "SupplyData") EXCEPT
        !.size = blocksize,
        !.flags = IF delayed THEN {"DELAYED"} ELSE {},
        !.payload = IF delayed THEN NoPayload ELSE Blk(c, b).data]

\* Cache::supplyData
supplyData(c, ev, b, src) ==
    LET key == <<Blk(c, b).baseAddr, src>>
        delayed == Blk(c, b).user_locked > 0
        reply(c2) ==
            LET resp == SupplyEvent(c2, b, delayed)
                erased == [c2 EXCEPT !.supplyInProgress = MapDel(@, key)]
            IN CASE src = "DOWNSTREAM" ->
                       IF delayed THEN send(erased, "down", resp)
                       ELSE SetBlk(send(erased, "down", resp), b, "status", "SHARED")
                 [] src = "SNOOP" ->
                       [busRequest(c2, resp,
                            Handler("finishBusSupplyData", b, src, delayed, "", FALSE, NULL),
                            Handler("prepBusSupplyData", b, src, delayed, "", FALSE, NULL))
                        EXCEPT !.supplyInProgress[key].busEvent = busHandle(c2)]
                 [] src = "DIRECTORY" ->
                       IF delayed
                       THEN Abort(c2, "assert(!resp->queryFlag(F_DELAYED))")
                       ELSE SetBlk(send(erased, "dir", resp), b, "status", "SHARED")
                 [] src = "UPSTREAM" -> send(erased, ev.link, resp)
                 [] OTHER -> c2
    IN IF key \notin DOMAIN c.supplyInProgress
       THEN Abort(c, "ASSERT(supMapI != supplyInProgress.end())")
       ELSE IF c.supplyInProgress[key].canceled
            THEN [unlock(c, b) EXCEPT !.supplyInProgress = MapDel(@, key)]
       ELSE reply(IF delayed THEN SetBlk(unlock(c, b), b, "user_lock_needs_wb", TRUE)
                  ELSE unlock(c, b))

\* Cache::finishBusSupplyData
finishBusSupplyData(c, b, src, isFakeSupply) ==
    LET c1 == IF ~isFakeSupply THEN SetBlk(c, b, "status", "SHARED") ELSE c
        key == <<Blk(c, b).baseAddr, src>>
    IN IF key \notin DOMAIN c.supplyInProgress
       THEN Abort(c, "ASSERT(supMapI != supplyInProgress.end())")
       ELSE [c1 EXCEPT !.supplyInProgress = MapDel(@, key)]

\* Cache::prepBusSupplyData and Cache::prepWritebackBlock: the payload is
\* taken from the block when the bus is granted
prepPayload(c, h, ev) ==
    IF h.fn \in {"prepBusSupplyData", "prepWritebackBlock"}
    THEN [ev EXCEPT !.payload = Blk(c, h.blk).data, !.size = blocksize]
    ELSE ev

\* the finish handler of a bus request
runFinish(c, h) ==
    CASE h.fn = "finishLoadBlockBus" -> Call("finishLoadBlockBus", c, <<h.li>>)
      [] h.fn = "finishBusSupplyData" -> Call("finishBusSupplyData", c, <<h.blk, h.src, h.fake>>)
      [] h.fn = "finishWritebackBlockVA" ->
             Call("finishWritebackBlock", c, <<h.blk, h.newStatus, h.decrementLock>>)
      [] OTHER -> c

\* BusQueue::clearToSend: the head request is prepared, sent and finished
clearToSend(c) ==
    IF c.busq = <<>> THEN c
    ELSE LET rq == Head(c.busq)
             sent(c1) == send(c1, "snoop", prepPayload(c1, rq.init, rq.ev))
         IN Call("runFinish", sent([c EXCEPT !.busq = Tail(@)]), <<rq.finish>>)

\* the cancellation of an in-progress snoop supply (handleCacheSupplyEvent and
\* handleInvalidate)
\* the requests whose deferred supplyData is still to fire when the supply
\* of key is marked canceled
Dropped(c, key) ==
    [c EXCEPT !.dropped = @ \cup
        {c.selfq[i].call.ev.id :
            i \in {j \in 1..Len(c.selfq) :
                      /\ c.selfq[j].call.fn = "supplyData"
                      /\ c.selfq[j].call.src = key[2]
                      /\ addrToBlockAddr(c.selfq[j].call.ev.addr) = key[1]}}]

cancelSupply(c, key) ==
    LET marked(c1, h) ==
            IF h = NULL THEN c1
            ELSE IF busHandlers(c1, h).finish.fn # "none"
                 THEN [busCancel(c1, h) EXCEPT !.supplyInProgress[key].busEvent = NULL]
            ELSE busCancel(c1, h)
    IN IF key \notin DOMAIN c.supplyInProgress THEN c
       ELSE marked([Dropped(c, key) EXCEPT !.supplyInProgress[key].canceled = TRUE],
                   c.supplyInProgress[key].busEvent)


(***************************************************************************)
(* Fills and writebacks arriving (SupplyData).                             *)
(***************************************************************************)
\* the loop of handleCacheSupplyEvent over the blocks a snooped supply covers
RECURSIVE CancelRange(_, _, _)
CancelRange(c, blkAddr, ev) ==
    IF blkAddr >= ev.addr + ev.size \/ c.aborted # "" THEN c
    ELSE LET b == findBlock(c, blkAddr, FALSE)
         IN IF b # NoBlock /\ Blk(c, b).status = "EXCLUSIVE"
            THEN Abort(c, "assert(!b || b->status != CacheBlock::EXCLUSIVE)")
            ELSE CancelRange(Call("cancelSupply", c, <<<<blkAddr, "SNOOP">>>>),
                             blkAddr + blocksize, ev)

\* the entries a Delayed fill from the snoop bus deletes
purgeSnoop(list, src) ==
    [n \in 1..Len(list) |->
        IF src = "SNOOP" /\ list[n].src = "SNOOP"
        THEN [list[n] EXCEPT !.ev = NoEvent] ELSE list[n]]

numPurged(list, src) ==
    Cardinality({n \in 1..Len(list) : src = "SNOOP" /\ list[n].src = "SNOOP"})

\* the n-th event of a load's list, as the fill that came from src replays it
\* and the target block as the replayed event finds it
Reloaded(c, addr, n, src) ==
    [c EXCEPT !.reloaded = Append(@, [addr |-> addr, n |-> n, by |-> src,
                                      ev |-> c.waitingLoads[addr].list[n].ev.id,
                                      src |-> c.waitingLoads[addr].list[n].src,
                                      block |-> Blk(c, c.waitingLoads[addr].targetBlock)])]

\* the replay loop of a fill: the list is read from the record on every
\* iteration, the record is erased only after the loop
ReplayLoad(c, addr, n, src) ==
    IF c.aborted # "" \/ addr \notin DOMAIN c.waitingLoads THEN c
    ELSE LET list == c.waitingLoads[addr].list
         IN IF n > Len(list) THEN c
            ELSE IF n > ReplayLimit THEN Abort(c, "the replay of a load list does not end")
            ELSE IF (src = "SNOOP" /\ list[n].src = "SNOOP") \/ list[n].ev = NoEvent
                 THEN Call("ReplayLoad", c, <<addr, n + 1, src>>)
            ELSE Call("ReplayLoad",
                      Call("handleIncomingEvent", Reloaded(c, addr, n, src),
                           <<list[n].ev, list[n].src, FALSE, TRUE>>),
                      <<addr, n + 1, src>>)

\* a fill that leaves the status of the target block as it was
fillLoad_KeepsStatus(c, ev, src) ==
    LET li == c.waitingLoads[ev.addr]
        tb == li.targetBlock
        pending(x) ==
            Call("handlePendingEvents", x, <<findRowIdx(Blk(x, tb).baseAddr), tb>>)
        erase(x) == [x EXCEPT !.waitingLoads = MapDel(@, ev.addr)]
        \* Delayed: the load is given up when nothing but snoop requests wait
        purged == [c EXCEPT !.waitingLoads[ev.addr].list = purgeSnoop(@, src)]
        release(x) ==
            unlock(IF isAssigned(Blk(x, tb)) THEN SetBlk(x, tb, "status", "INVALID")
                   ELSE x, tb)
        \* data: fill the block, replay the waiting events, erase the record
        filled == unlock(SetBlk(updateBlock(c, ev, tb), tb, "loadInfo", NULL), tb)
    IN IF "DELAYED" \in ev.flags
       THEN IF numPurged(li.list, src) = Len(li.list)
            THEN pending(release(SetBlk(erase(purged), tb, "loadInfo", NULL)))
            ELSE Call("handlePendingEvents", purged,
                      <<findRowIdx(Blk(c, tb).baseAddr), tb>>)
       ELSE pending(erase(Call("ReplayLoad", filled, <<ev.addr, 1, src>>)))

\* a fill whose Delayed branch purges the snoop requests whatever link the
\* fill came on
fillLoad_PurgesAnySnoop(c, ev, src) ==
    LET li == c.waitingLoads[ev.addr]
        tb == li.targetBlock
        pending(x) ==
            Call("handlePendingEvents", x, <<findRowIdx(Blk(x, tb).baseAddr), tb>>)
        erase(x) == [x EXCEPT !.waitingLoads = MapDel(@, ev.addr)]
        \* Delayed: the load is given up when nothing but snoop requests wait
        purged == [c EXCEPT !.waitingLoads[ev.addr].list = purgeSnoop(@, "SNOOP")]
        release(x) ==
            unlock(IF isAssigned(Blk(x, tb)) THEN SetBlk(x, tb, "status", "INVALID")
                   ELSE x, tb)
        \* data: fill the block, replay the waiting events, erase the record
        filled == unlock(SetBlk(SetBlk(updateBlock(c, ev, tb), tb, "loadInfo", NULL),
                                tb, "status", "SHARED"), tb)
    IN IF "DELAYED" \in ev.flags
       THEN IF numPurged(li.list, "SNOOP") = Len(li.list)
            THEN pending(release(SetBlk(erase(purged), tb, "loadInfo", NULL)))
            ELSE Call("handlePendingEvents", purged,
                      <<findRowIdx(Blk(c, tb).baseAddr), tb>>)
       ELSE pending(erase(Call("ReplayLoad", filled, <<ev.addr, 1, src>>)))

\* the fill of an outstanding load that has a target block
fillLoad(c, ev, src) ==
    LET li == c.waitingLoads[ev.addr]
        tb == li.targetBlock
        pending(x) ==
            Call("handlePendingEvents", x, <<findRowIdx(Blk(x, tb).baseAddr), tb>>)
        erase(x) == [x EXCEPT !.waitingLoads = MapDel(@, ev.addr)]
        \* Delayed: the load is given up when nothing but snoop requests wait
        purged == [c EXCEPT !.waitingLoads[ev.addr].list = purgeSnoop(@, src)]
        release(x) ==
            unlock(IF isAssigned(Blk(x, tb)) THEN SetBlk(x, tb, "status", "INVALID")
                   ELSE x, tb)
        \* data: fill the block, replay the waiting events, erase the record
        filled == unlock(SetBlk(SetBlk(updateBlock(c, ev, tb), tb, "loadInfo", NULL),
                                tb, "status", "SHARED"), tb)
    IN IF "DELAYED" \in ev.flags
       THEN IF numPurged(li.list, src) = Len(li.list)
            THEN pending(release(SetBlk(erase(purged), tb, "loadInfo", NULL)))
            ELSE Call("handlePendingEvents", purged,
                      <<findRowIdx(Blk(c, tb).baseAddr), tb>>)
       ELSE pending(erase(Call("ReplayLoad", filled, <<ev.addr, 1, src>>)))

\* a SupplyData that matches no outstanding load
unmatchedSupply(c, ev, src) ==
    LET fwd == [ev EXCEPT !.link = ""]
        wb == "WRITEBACK" \in ev.flags
        update(b) ==
            IF c.mode = "INCLUSIVE"
            THEN IF b = NoBlock THEN Abort(c, "assert(block != NULL)")
                 ELSE IF ~(Blk(c, b).status = "DIRTY" \/ src = "SNOOP")
                      THEN Abort(c, "assert(block->status == DIRTY || src == SNOOP)")
                 ELSE SetBlk(updateBlock(c, ev, b), b, "status", "SHARED")
            ELSE c
        forward(c1) ==
            IF c1.aborted # "" THEN c1
            ELSE IF src = "SNOOP"
                 THEN IF ev.dst = c.name THEN c1
                      ELSE IF c.downstream_link /\ wb THEN send(c1, "down", fwd)
                      ELSE IF c.directory_link /\ wb
                           THEN send(c1, "dir", [fwd EXCEPT !.src = c.name])
                      ELSE c1
            ELSE IF src = "UPSTREAM"
                 THEN IF ~wb THEN Abort(c1, "assert(ev->queryFlag(F_WRITEBACK))")
                      ELSE IF c.downstream_link THEN send(c1, "down", fwd)
                      ELSE IF c.directory_link
                           THEN send(c1, "dir", [fwd EXCEPT !.src = c.name])
                      ELSE Abort(c1, "Not sure where to send this")
            ELSE c1
    IN forward(update(findBlock(c, ev.addr, FALSE)))

\* Cache::handleCacheSupplyEvent
handleCacheSupplyEvent(c, ev, src) ==
    LET matched(c1) ==
            LET li == c1.waitingLoads[ev.addr]
                c2 == IF li.busEvent # NULL
                      THEN [busCancel(c1, li.busEvent)
                               EXCEPT !.waitingLoads[ev.addr].busEvent = NULL]
                      ELSE c1
            IN IF li.targetBlock = NoBlock
               THEN IF src = "SNOOP" THEN c2 ELSE Abort(c2, "ASSERT( src == SNOOP )")
               ELSE Call("fillLoad", c2, <<ev, src>>)
        supplied(c1) ==
            IF c1.aborted # "" THEN c1
            ELSE IF ev.addr \in DOMAIN c1.waitingLoads THEN matched(c1)
            ELSE Call("unmatchedSupply", c1, <<ev, src>>)
    IN IF src = "SNOOP" /\ ev.src = c.name THEN c
       ELSE supplied(IF src = "SNOOP" /\ ev.size >= blocksize
                     THEN CancelRange(c, addrToBlockAddr(ev.addr), ev)
                     ELSE c)


(***************************************************************************)
(* Invalidate, Fetch and NACK arriving.                                    *)
(***************************************************************************)
\* the Invalidate that is applied to the Shared block b, and the status it
\* gives the block
Invalidated(c, b, ev, src, status) ==
    [c EXCEPT !.invalidated = @ \cup {[block |-> b, id |-> ev.id, src |-> src,
                                       status |-> status]}]

\* the Invalidate that finds the block b Exclusive and is put on the row queue
Awaited(c, b, ev, src) ==
    [c EXCEPT !.awaited = @ \cup {[id |-> ev.id, addr |-> Blk(c, b).baseAddr,
                                   src |-> src, data |-> Blk(c, b).data]}]

\* applyInvalidate that keeps a Shared block as Dirty for an Invalidate from
\* upstream only
applyInvalidate_DirtyFromUpOnly(c, ev, src, b) ==
    LET blk == Blk(c, b)
        r == findRowIdx(blk.baseAddr)
        newStatus == IF c.mode = "INCLUSIVE" /\ src = "UPSTREAM"
                     THEN "DIRTY" ELSE "INVALID"
        ack(x) == IF src # "SNOOP" THEN Call("sendInvalidateACK", x, <<ev, src>>) ELSE x
    IN IF b = NoBlock THEN ack(c)
       ELSE IF blk.status = "SHARED"
            THEN ack(Call("handlePendingEvents",
                          SetBlk(Invalidated(Call("cancelSupply", c,
                                                  <<<<blk.baseAddr, "SNOOP">>>>),
                                             b, ev, src, newStatus),
                                 b, "status", newStatus),
                          <<r, NoBlock>>))
       ELSE IF blk.status = "EXCLUSIVE"
            THEN Call("writebackBlock", addWaitingEvent(Awaited(c, b, ev, src), r, ev, src),
                      <<b, "INVALID">>)
       ELSE ack(c)

\* applyInvalidate without the ACK of an Invalidate that finds no block
applyInvalidate_NoAckOnMiss(c, ev, src, b) ==
    LET blk == Blk(c, b)
        r == findRowIdx(blk.baseAddr)
        newStatus == IF c.mode = "INCLUSIVE" /\ src # "DOWNSTREAM" /\ src # "DIRECTORY"
                     THEN "DIRTY" ELSE "INVALID"
        ack(x) == IF src # "SNOOP" THEN Call("sendInvalidateACK", x, <<ev, src>>) ELSE x
    IN IF b = NoBlock THEN c
       ELSE IF blk.status = "SHARED"
            THEN ack(Call("handlePendingEvents",
                          SetBlk(Invalidated(Call("cancelSupply", c,
                                                  <<<<blk.baseAddr, "SNOOP">>>>),
                                             b, ev, src, newStatus),
                                 b, "status", newStatus),
                          <<r, NoBlock>>))
       ELSE IF blk.status = "EXCLUSIVE"
            THEN Call("writebackBlock", addWaitingEvent(Awaited(c, b, ev, src), r, ev, src),
                      <<b, "INVALID">>)
       ELSE ack(c)

\* the part of handleInvalidate after the forwarding phases
applyInvalidate(c, ev, src, b) ==
    LET blk == Blk(c, b)
        r == findRowIdx(blk.baseAddr)
        newStatus == IF c.mode = "INCLUSIVE" /\ src # "DOWNSTREAM" /\ src # "DIRECTORY"
                     THEN "DIRTY" ELSE "INVALID"
        ack(x) == IF src # "SNOOP" THEN Call("sendInvalidateACK", x, <<ev, src>>) ELSE x
    IN IF b = NoBlock THEN ack(c)
       ELSE IF blk.status = "SHARED"
            THEN ack(Call("handlePendingEvents",
                          SetBlk(Invalidated(Call("cancelSupply", c,
                                                  <<<<blk.baseAddr, "SNOOP">>>>),
                                             b, ev, src, newStatus),
                                 b, "status", newStatus),
                          <<r, NoBlock>>))
       ELSE IF blk.status = "EXCLUSIVE"
            THEN Call("writebackBlock", addWaitingEvent(Awaited(c, b, ev, src), r, ev, src),
                      <<b, "INVALID">>)
       ELSE ack(c)

\* handleInvalidate that ACKs at once an Invalidate it cannot serve yet
handleInvalidate_AcksBusy(c, ev, src, finishedUpstream) ==
    LET forward(c1, b) ==
            IF c1.aborted # "" THEN c1
            ELSE IF ~finishedUpstream /\ src \in {"DOWNSTREAM", "DIRECTORY"} /\ ~c1.isL1
                 THEN Call("issueInvalidate", c1, <<ev, src, ev.addr, "SEND_UP", FALSE>>)
            ELSE IF ~finishedUpstream /\ src = "UPSTREAM"
                 THEN Call("issueInvalidate", c1, <<ev, src, ev.addr, "SEND_DOWN", TRUE>>)
            ELSE Call("applyInvalidate", c1, <<ev, src, b>>)
        onBlock(b) ==
            IF b # NoBlock /\ waitingForInvalidate(c, Blk(c, b).baseAddr)
            THEN IF cancelInvalidateOk(c, b)
                 THEN forward(Call("cancelInvalidate", c, <<b>>), b)
                 ELSE Call("sendInvalidateACK", c, <<ev, src>>)
            ELSE forward(c, b)
    IN IF src = "SNOOP" /\ ev.src = c.name THEN Call("ackInvalidate", c, <<ev>>)
       ELSE onBlock(findBlock(c, ev.addr, FALSE))

\* Cache::handleInvalidate
handleInvalidate(c, ev, src, finishedUpstream) ==
    LET forward(c1, b) ==
            IF c1.aborted # "" THEN c1
            ELSE IF ~finishedUpstream /\ src \in {"DOWNSTREAM", "DIRECTORY"} /\ ~c1.isL1
                 THEN Call("issueInvalidate", c1, <<ev, src, ev.addr, "SEND_UP", FALSE>>)
            ELSE IF ~finishedUpstream /\ src = "UPSTREAM"
                 THEN Call("issueInvalidate", c1, <<ev, src, ev.addr, "SEND_DOWN", TRUE>>)
            ELSE Call("applyInvalidate", c1, <<ev, src, b>>)
        onBlock(b) ==
            IF b # NoBlock /\ waitingForInvalidate(c, Blk(c, b).baseAddr)
            THEN IF cancelInvalidateOk(c, b)
                 THEN forward(Call("cancelInvalidate", c, <<b>>), b)
                 ELSE selfSend(c, 2, SelfEvent("retryEvent", ev, NoBlock, src, NULL, 0))
            ELSE forward(c, b)
    IN IF src = "SNOOP" /\ ev.src = c.name THEN Call("ackInvalidate", c, <<ev>>)
       ELSE onBlock(findBlock(c, ev.addr, FALSE))

\* Cache::fetchBlock
fetchBlock(c, ev, b) ==
    LET blockAddr == addrToBlockAddr(ev.addr)
        reprocess == blockAddr \in DOMAIN c.waitingLoads
        c1 == Call("initLoad", c, <<ev>>)
        lid == c1.waitingLoads[blockAddr].lid
        elem == LoadElement(ev, "DIRECTORY")
        c2 == [lock(SetBlk(c1, b, "loadInfo", lid), b) EXCEPT
                  !.waitingLoads[blockAddr].targetBlock = b,
                  !.waitingLoads[blockAddr].loadDirection = "SEND_UP",
                  !.waitingLoads[blockAddr].list =
                      IF reprocess THEN <<elem>> \o @ ELSE Append(@, elem)]
    IN selfSend(c2, 1, SelfEvent("finishLoadBlock", NoEvent, b, "", lid,
                                 Blk(c2, b).baseAddr))

FetchResponse(c, ev, b) ==
    [makeResponse(c, ev) EXCEPT !.dst = ev.src, !.payload = Blk(c, b).data,
                                !.size = blocksize]

\* Cache::handleFetch
handleFetch(c, ev, invalidate, hasInvalidated) ==
    LET onBlock(b) ==
            LET c1 == send(c, "dir", FetchResponse(c, ev, b))
            IN IF b = NoBlock THEN c
               ELSE IF invalidate /\ ~hasInvalidated
                    THEN Call("issueInvalidateBlock", c,
                              <<ev, "DIRECTORY", b, "SHARED", "SEND_UP", DefaultCancelable>>)
               ELSE IF Blk(c, b).status = "SHARED"
                    THEN IF invalidate THEN SetBlk(c1, b, "status", "INVALID") ELSE c1
               ELSE IF Blk(c, b).status = "DIRTY" THEN Call("fetchBlock", c, <<ev, b>>)
               ELSE Abort(c, "Not a legal status in a Fetch situation")
    IN IF ~c.directory_link THEN Abort(c, "assert(directory_link)")
       ELSE onBlock(findBlock(c, ev.addr, FALSE))

NackEvent(c, ev) == [makeResponse(c, ev) EXCEPT !.cmd = "NACK", !.size = 0]

\* the loop of handleNACK over the events the invalidation held
NackWaiting(c, q, i, addr) ==
    IF i > Len(q) \/ c.aborted # "" THEN c
    ELSE LET old == q[i]
             nack == NackEvent(c, old.ev)
             unlocked(b) == IF b # NoBlock /\ isLocked(Blk(c, b)) THEN unlock(c, b) ELSE c
             next(x) == Call("NackWaiting", x, <<q, i + 1, addr>>)
         IN IF c.isL1
            THEN next(selfSend(Retried(unlocked(findBlock(c, addr, FALSE)), old), 1,
                               SelfEvent("retryEvent", old.ev, NoBlock, old.src, NULL, 0)))
            ELSE CASE old.src = "SNOOP" -> next(busRequest(c, nack, NoHandler, NoHandler))
                   [] old.src = "UPSTREAM" -> next(send(c, old.ev.link, nack))
                   [] old.src = "DOWNSTREAM" -> next(send(c, "down", nack))
                   [] old.src = "DIRECTORY" -> next(send(c, "dir", nack))
                   [] OTHER -> Abort(c, "NACK'ing an event we sent ourself")

\* handleNACK that leaves the record of the invalidation in the table
handleNACK_KeepsRecord(c, ev, src) ==
    LET hasInv == ev.addr \in DOMAIN c.invalidations
        inv == c.invalidations[ev.addr]
        c1 == Cancelled(c, inv.waitingEvents)
        li == c.waitingLoads[ev.addr]
    IN IF hasInv /\ ev.respTo = inv.issuingEvent
       THEN IF ~inv.canCancel THEN Abort(c, "assert(i->second.canCancel)")
            ELSE Call("NackWaiting",
                      IF c.isL1 THEN Drained(c1, "inv", <<ev.addr>>, inv.waitingEvents)
                      ELSE c1,
                      <<inv.waitingEvents, 1, ev.addr>>)
       ELSE IF ev.addr \in DOMAIN c.waitingLoads
            THEN IF li.targetBlock = NoBlock
                 THEN Abort(c, "handleNACK: load without a target block")
                 ELSE selfSend(c, 1, SelfEvent("finishLoadBlock", NoEvent, li.targetBlock,
                                               "", li.lid, Blk(c, li.targetBlock).baseAddr))
       ELSE c

\* Cache::handleNACK
handleNACK(c, ev, src) ==
    LET hasInv == ev.addr \in DOMAIN c.invalidations
        inv == c.invalidations[ev.addr]
        c1 == Cancelled([c EXCEPT !.invalidations = MapDel(@, ev.addr)],
                        inv.waitingEvents)
        li == c.waitingLoads[ev.addr]
    IN IF hasInv /\ ev.respTo = inv.issuingEvent
       THEN IF ~inv.canCancel THEN Abort(c, "assert(i->second.canCancel)")
            ELSE Call("NackWaiting",
                      IF c.isL1 THEN Drained(c1, "inv", <<ev.addr>>, inv.waitingEvents)
                      ELSE c1,
                      <<inv.waitingEvents, 1, ev.addr>>)
       ELSE IF ev.addr \in DOMAIN c.waitingLoads
            THEN IF li.targetBlock = NoBlock
                 THEN Abort(c, "handleNACK: load without a target block")
                 ELSE selfSend(c, 1, SelfEvent("finishLoadBlock", NoEvent, li.targetBlock,
                                               "", li.lid, Blk(c, li.targetBlock).baseAddr))
       ELSE c

(***************************************************************************)
(* The dispatcher and the self link.                                       *)
(***************************************************************************)
\* the default of the parameter firstPhaseComplete
DefaultFirstPhaseComplete == FALSE

\* Cache::handleIncomingEvent(event, src, firstTimeProcessed, firstPhaseComplete)
handleIncomingEvent(c, ev, src, firstTimeProcessed, firstPhaseComplete) ==
    IF c.aborted # "" THEN c
    ELSE CASE ev.cmd = "BusClearToSend" -> Call("clearToSend", c, <<>>)
           [] ev.cmd \in {"ReadReq", "WriteReq"} -> Call("handleCPURequest", c, <<ev, firstTimeProcessed>>)
           [] ev.cmd = "RequestData" -> Call("handleCacheRequestEvent", c, <<ev, src, firstTimeProcessed>>)
           [] ev.cmd = "SupplyData" -> Call("handleCacheSupplyEvent", c, <<ev, src>>)
           [] ev.cmd = "Invalidate" -> Call("handleInvalidate", c, <<ev, src, firstPhaseComplete>>)
           [] ev.cmd = "ACK" -> Call("ackInvalidate", c, <<ev>>)
           [] ev.cmd = "NACK" -> Call("handleNACK", c, <<ev, src>>)
           [] ev.cmd = "Fetch" -> Call("handleFetch", c, <<ev, FALSE, firstPhaseComplete>>)
           [] ev.cmd = "FetchInvalidate" -> Call("handleFetch", c, <<ev, TRUE, firstPhaseComplete>>)
           [] OTHER -> c

\* Cache::retryEvent
retryEvent(c, ev, src) ==
    Call("handleIncomingEvent", c, <<ev, src, FALSE, DefaultFirstPhaseComplete>>)

\* Cache::handleSelfEvent: ev->fire()
handleSelfEvent(c, se) ==
    CASE se.fn = "retryEvent" -> Call("retryEvent", c, <<se.ev, se.src>>)
      [] se.fn = "sendCPUResponse" -> Call("sendCPUResponse", c, <<se.ev>>)
      [] se.fn = "finishLoadBlock" -> Call("finishLoadBlock", c, <<se.li, se.addr, se.blk>>)
      [] se.fn = "supplyData" -> Call("supplyData", c, <<se.ev, se.blk, se.src>>)
      [] OTHER -> c


(***************************************************************************)
(* The handlers call each other, and through the replay of queued events   *)
(* they call handleIncomingEvent again: Call(fn, c, a) is the call of      *)
(* method fn on cache c with the arguments a.                              *)
(***************************************************************************)
Call(fn, c, a) ==
    CASE fn = "handleCPURequest" ->
          handleCPURequest(c, a[1], a[2])
      [] fn = "handleInvalidate" ->
          handleInvalidate(c, a[1], a[2], a[3])
      [] fn = "handleCacheRequestEvent" ->
          handleCacheRequestEvent(c, a[1], a[2], a[3])
      [] fn = "loadBlock" ->
          loadBlock(c, a[1], a[2])
      [] fn = "handleCacheSupplyEvent" ->
          handleCacheSupplyEvent(c, a[1], a[2])
      [] fn = "fillLoad" ->
          fillLoad(c, a[1], a[2])
      [] fn = "applyInvalidate" ->
          applyInvalidate(c, a[1], a[2], a[3])
      [] fn = "writebackBlock" ->
          writebackBlock(c, a[1], a[2])
      [] fn = "handleFetch" ->
          handleFetch(c, a[1], a[2], a[3])
      [] fn = "issueInvalidateBlock" ->
          issueInvalidateBlock(c, a[1], a[2], a[3], a[4], a[5], a[6])
      [] fn = "issueInvalidate" ->
          issueInvalidate(c, a[1], a[2], a[3], a[4], a[5])
      [] fn = "ackInvalidate" ->
          ackInvalidate(c, a[1])
      [] fn = "finishIssueInvalidate" ->
          finishIssueInvalidate(c, a[1])
      [] fn = "retryEvent" ->
          retryEvent(c, a[1], a[2])
      [] fn = "handleIncomingEvent" ->
          handleIncomingEvent(c, a[1], a[2], a[3], a[4])
      [] fn = "ReplayLoad" ->
          ReplayLoad(c, a[1], a[2], a[3])
      [] fn = "ReplayWaiting" ->
          ReplayWaiting(c, a[1], a[2])
      [] fn = "handleNACK" ->
          handleNACK(c, a[1], a[2])
      [] fn = "cancelInvalidate" ->
          cancelInvalidate(c, a[1])
      [] fn = "finishLoadBlock" ->
          finishLoadBlock(c, a[1], a[2], a[3])
      [] fn = "finishWritebackBlock" ->
          finishWritebackBlock(c, a[1], a[2], a[3])
      [] fn = "supplyData" ->
          supplyData(c, a[1], a[2], a[3])
      [] fn = "sendCPUResponse" ->
          sendCPUResponse(c, a[1])
      [] fn = "handlePendingEvents" ->
          handlePendingEvents(c, a[1], a[2])
      [] fn = "RetryAll" ->
          RetryAll(c, a[1], a[2])
      [] fn = "InvalidateUp" ->
          InvalidateUp(c, a[1], a[2], a[3], a[4])
      [] fn = "requestLoadOnBus" ->
          requestLoadOnBus(c, a[1], a[2])
      [] fn = "runFinish" ->
          runFinish(c, a[1])
      [] fn = "clearToSend" ->
          clearToSend(c)
      [] fn = "unmatchedSupply" ->
          unmatchedSupply(c, a[1], a[2])
      [] fn = "NackWaiting" ->
          NackWaiting(c, a[1], a[2], a[3])
      [] fn = "finishLoadBlockBus" ->
          finishLoadBlockBus(c, a[1])
      [] fn = "finishBusSupplyData" ->
          finishBusSupplyData(c, a[1], a[2], a[3])
      [] fn = "sendInvalidateACK" ->
          sendInvalidateACK(c, a[1], a[2])
      [] fn = "initLoad" ->
          initLoad(c, a[1])
      [] fn = "fetchBlock" ->
          fetchBlock(c, a[1], a[2])
      [] fn = "respondToCPU" ->
          respondToCPU(c, a[1], a[2])
      [] fn = "queueOnInvalidate" ->
          queueOnInvalidate(c, a[1], a[2], a[3])
      [] fn = "cancelSupply" ->
          cancelSupply(c, a[1])
      [] fn = "RequestUp" ->
          RequestUp(c, a[1], a[2], a[3])

(***************************************************************************)
(* The environment: the kernel that runs one handler at a time, the links  *)
(* and the neighbours.  env.pend holds the requests the cache has sent and *)
(* that a neighbour may still answer, env.loop the cache's own bus         *)
(* messages that the bus has still to deliver back to it.                  *)
(***************************************************************************)
Directory(name, rangeStart, rangeEnd, interleaveSize, interleaveStep) ==
    [name |-> name, rangeStart |-> rangeStart, rangeEnd |-> rangeEnd,
     interleaveSize |-> interleaveSize, interleaveStep |-> interleaveStep]

Config(mode, n_upstream, cpu, down, snoop, dir, alloc) ==
    [mode |-> mode, n_upstream |-> n_upstream, cpu |-> cpu, down |-> down,
     next_level |-> TRUE, snoop |-> snoop, dir |-> dir, span |-> NumBlocks,
     directories |-> IF dir THEN <<Directory("dir0", 0, blocksize * n_rows * NumBlocks, 0, 0)>>
                     ELSE <<>>,
     alloc |-> alloc]

\* an L1 on a snoop bus, an L1 above a point-to-point level, an inclusive
\* L2 below two caches, and a cache below one cache on a directory network
CfgL1Snoop == Config("STANDARD", 1, TRUE, FALSE, TRUE, FALSE, "fresh")
CfgL1Down == Config("STANDARD", 1, TRUE, TRUE, FALSE, FALSE, "fresh")
CfgL2Incl == Config("INCLUSIVE", 2, FALSE, TRUE, FALSE, FALSE, "fresh")
CfgL2Dir == Config("INCLUSIVE", 1, FALSE, FALSE, FALSE, TRUE, "fresh")

Configs == {CfgL1Snoop, CfgL1Down, CfgL2Incl, CfgL2Dir}

FillData == [i \in 1..blocksize |-> 2]
WriteData == <<1>>
CpuAddrs == BlockAddrs \cup {1}

\* the kinds of events the neighbours send on their own; a quota bounds the
\* events of one kind, -1 standing for no bound but the budget
Kinds == {"read", "lock", "write", "request", "invalidate", "supply", "fetch", "nack"}
NoQuota == [k \in Kinds |-> -1]

InitEnv(cfg, budget, quota) ==
    [cfg |-> cfg, budget |-> budget, quota |-> quota,
     nextEv |-> 1, used |-> 0, pend |-> {},
     loop |-> <<>>, lockedReads |-> {}, held |-> {},
     reqs |-> [a \in BlockAddrs |-> 0], owed |-> {}, delayed |-> {},
     dropped |-> {}, awaited |-> {}, wrote |-> {}, acked |-> {},
     fetches |-> {}, answered |-> {}, twice |-> {},
     asked |-> {}, done |-> {}, redone |-> {}]

\* hist remembers the last step: what was delivered, and the cache before it
Hist(kind, ev, src, fn, pre) ==
    [kind |-> kind, ev |-> ev, src |-> src, fn |-> fn, pre |-> pre]

\* the time stamps keep their order only
Normalise(c) ==
    LET T == {Blk(c, b).last_touched : b \in AllBlocks}
        rank(v) == Cardinality({x \in T : x < v})
    IN [c EXCEPT !.blocks = [r \in Rows |-> [w \in Ways |->
                       [c.blocks[r][w] EXCEPT !.last_touched = rank(@)]]],
                 !.now = Cardinality(T)]

\* a handler run starts with nothing sent
Begin(c) ==
    [c EXCEPT !.out = <<>>, !.chosen = {}, !.cancelled = {}, !.replayed = <<>>,
              !.issued = {}, !.written = {}, !.dropped = {}, !.invalidated = {}, !.awaited = {}, !.reissued = {},
              !.retried = <<>>, !.drains = <<>>, !.reloaded = <<>>]

\* a failed assertion stops the cache in the state the handler found
Finish(c0, c1) ==
    IF c1.aborted # "" THEN [Begin(c0) EXCEPT !.aborted = c1.aborted]
    ELSE Normalise(c1)

\* what the neighbours may answer, from the messages of one handler run
Sent(c, cmds, links) ==
    {c.out[i] : i \in {j \in 1..Len(c.out) :
                          c.out[j].ev.cmd \in cmds /\ c.out[j].link \in links}}

NewPend(c) ==
    {[link |-> m.link, cmd |-> m.ev.cmd, addr |-> m.ev.addr, id |-> m.ev.id] :
        m \in Sent(c, {"Invalidate", "RequestData"}, {"up0", "up1", "down", "dir", "snoop"})}

NewLoop(c) ==
    SelectIdx([i \in 1..Len(c.out) |-> c.out[i].ev], 1,
              {i \in 1..Len(c.out) : c.out[i].link = "snoop"})

\* the locked reads the CPU has got its answer to
Answered(e, c) ==
    {lr \in e.lockedReads :
        \E m \in Sent(c, {"ReadResp"}, {"up0"}) : m.ev.respTo = lr.id}

\* the RequestData for block a the levels below have got since the load of a
\* began, less the NACKs that made the cache send it again (two stands for
\* two or more)
Requested(e, c, a) ==
    LET n == Cardinality({i \in 1..Len(c.out) :
                            /\ c.out[i].ev.cmd = "RequestData"
                            /\ c.out[i].ev.addr = a
                            /\ c.out[i].link \in {"down", "dir", "snoop"}})
    IN IF a \notin DOMAIN c.waitingLoads THEN 0
       ELSE IF e.reqs[a] + n > 2 THEN 2 ELSE e.reqs[a] + n

\* the events a cancelled invalidation held that have neither been given to
\* the event handler again nor been answered with a NACK
Owed(e, c, h) ==
    ((e.owed \cup c.cancelled)
        \ {c.out[i].ev.respTo : i \in {j \in 1..Len(c.out) : c.out[j].ev.cmd = "NACK"}})
        \ (IF h.kind = "self" /\ h.fn = "retryEvent" THEN {h.ev.id} ELSE {})

\* the blocks a neighbour has asked for and has been answered with the
\* Delayed flag only: it waits for the data until a SupplyData carries them
DelayedOwed(e, c) ==
    LET links == {"up0", "up1", "down", "dir", "snoop"}
        S == Sent(c, {"SupplyData"}, links)
    IN (e.delayed \cup {m.ev.addr : m \in {x \in S : "DELAYED" \in x.ev.flags}})
           \ {m.ev.addr : m \in {x \in S : "DELAYED" \notin x.ev.flags}}

\* the Invalidates that found their block Exclusive, the blocks of theirs
\* that were written back since, and the ones that were ACKed
AwaitedNow(e, c) ==
    e.awaited \cup {[id |-> x.id, addr |-> x.addr, src |-> x.src] : x \in c.awaited}

WroteBack(c) ==
    {m.ev.addr : m \in {x \in Sent(c, {"SupplyData"}, {"down", "dir", "snoop"}) :
                            "WRITEBACK" \in x.ev.flags}}

WroteNow(e, c) ==
    ((e.wrote \ {x.addr : x \in c.awaited}) \cup WroteBack(c))
        \cap {x.addr : x \in AwaitedNow(e, c)}

AckedNow(e, c) ==
    e.acked \cup ({m.ev.respTo : m \in Sent(c, {"ACK"}, {"up0", "up1", "down", "dir"})}
                     \cap {x.id : x \in AwaitedNow(e, c)})

\* the FetchResps of the run that answer the event id
FetchResps(c, id) ==
    {i \in 1..Len(c.out) : /\ c.out[i].link = "dir" /\ c.out[i].ev.cmd = "FetchResp"
                           /\ c.out[i].ev.respTo = id}

AnsweredNow(e, c) == e.answered \cup {f.id : f \in {x \in e.fetches : FetchResps(c, x.id) # {}}}

TwiceNow(e, c) ==
    e.twice \cup {f.id : f \in {x \in e.fetches :
                                   \/ Cardinality(FetchResps(c, x.id)) > 1
                                   \/ FetchResps(c, x.id) # {} /\ x.id \in e.answered}}

AfterRun(e, c) ==
    IF c.aborted # "" THEN e
    ELSE [e EXCEPT !.pend = @ \cup NewPend(c),
                   !.awaited = AwaitedNow(e, c),
                   !.wrote = WroteNow(e, c),
                   !.acked = AckedNow(e, c),
                   !.answered = AnsweredNow(e, c),
                   !.twice = TwiceNow(e, c),
                   !.reqs = [a \in BlockAddrs |-> Requested(e, c, a)],
                   !.loop = @ \o NewLoop(c),
                   !.held = @ \cup Answered(e, c),
                   !.delayed = DelayedOwed(e, c),
                   !.dropped = @ \cup c.dropped,
                   !.lockedReads = @ \ Answered(e, c)]

\* the CPU requests a run answers on upstream link 0
CpuAnswers(c) ==
    IF c.aborted # "" THEN {}
    ELSE {m.ev.respTo : m \in Sent(c, {"ReadResp", "WriteResp"}, {"up0"})}

\* the CPU requests answered more than once in a run
CpuAnswersTwice(c) ==
    IF c.aborted # "" THEN {}
    ELSE {c.out[i].ev.respTo : i \in {j \in 1..Len(c.out) :
             /\ c.out[j].link = "up0" /\ c.out[j].ev.cmd \in {"ReadResp", "WriteResp"}
             /\ \E k \in 1..Len(c.out) :
                   /\ k # j /\ c.out[k].link = "up0"
                   /\ c.out[k].ev.cmd \in {"ReadResp", "WriteResp"}
                   /\ c.out[k].ev.respTo = c.out[j].ev.respTo}}

\* the CPU requests delivered and not answered yet, the ones answered, and
\* the ones answered more than once
CpuLedger(e0, e, c, h) ==
    [e EXCEPT !.asked = (e0.asked \cup (IF h.kind = "cpu" THEN {h.ev.id} ELSE {}))
                            \ CpuAnswers(c),
              !.done = e0.done \cup CpuAnswers(c),
              !.redone = e0.redone \cup (CpuAnswers(c) \cap e0.done)
                             \cup CpuAnswersTwice(c)]

\* the events the cache may create: two Invalidates that cancel each other's
\* invalidation are retried, and forwarded under a new id, without end
MaxIds == 9

\* one run of handleIncomingEvent(event, src)
Ran(c1, e, h) ==
    /\ cache.aborted = "" /\ cache.nextId <= MaxIds
    /\ cache' = Finish(cache, c1)
    /\ env' = CpuLedger(e, [AfterRun(e, c1) EXCEPT !.owed = Owed(e, c1, h)], c1, h)
    /\ hist' = Hist(h.kind, h.ev, h.src, h.fn, cache)

Run(ev, src, kind, e) ==
    Ran(Call("handleIncomingEvent", Begin(cache),
             <<ev, src, TRUE, DefaultFirstPhaseComplete>>),
        e, [kind |-> kind, ev |-> ev, src |-> src, fn |-> ""])

\* Block addresses are interchangeable (one row, the tag is the only
\* difference), so the neighbours name them in order of first use: a run
\* that names them in another order is this run with the addresses renamed.
BlockIndex(a) == addrToBlockAddr(a) \div (blocksize * n_rows)
\* the neighbours name the block addresses in order of first use, and no
\* more than cfg.span of them
AddrOK(e, a) == BlockIndex(a) <= e.used /\ BlockIndex(a) < e.cfg.span

Spend(e, a, k) ==
    [e EXCEPT !.budget = @ - 1, !.nextEv = @ + 1,
              !.quota[k] = IF @ > 0 THEN @ - 1 ELSE @,
              !.used = IF BlockIndex(a) >= @ THEN BlockIndex(a) + 1 ELSE @]
EnvId(e) == <<e.nextEv, "env">>

\* the cache as its constructor leaves it, in one of the configurations
InitOf(cfgs, budget, quota) ==
    \E cfg \in cfgs :
        /\ cache = NewCache(cfg)
        /\ env = InitEnv(cfg, budget, quota)
        /\ hist = Hist("init", NoEvent, "", "", NewCache(cfg))

Init == InitOf(Configs, MaxExt, NoQuota)


(***************************************************************************)
(* Events the neighbours send on their own.                                *)
(***************************************************************************)
SrcOfLink(link) ==
    CASE link \in {"up0", "up1"} -> "UPSTREAM"
      [] link = "down" -> "DOWNSTREAM"
      [] link = "snoop" -> "SNOOP"
      [] link = "dir" -> "DIRECTORY"

NameOfLink(link) ==
    CASE link = "up0" -> "upper0"
      [] link = "up1" -> "upper1"
      [] link = "down" -> "lower"
      [] link = "snoop" -> "peer"
      [] link = "dir" -> "dir0"

\* the links on which another cache or a memory may talk to this cache
PeerLinks(cfg) ==
    (IF cfg.cpu THEN {} ELSE IF cfg.n_upstream = 2 THEN {"up0", "up1"}
     ELSE IF cfg.n_upstream = 1 THEN {"up0"} ELSE {})
    \cup (IF cfg.down THEN {"down"} ELSE {})
    \cup (IF cfg.snoop THEN {"snoop"} ELSE {})
    \cup (IF cfg.dir THEN {"dir"} ELSE {})

\* the bus delivers the cache's own message before anything it sends later
LinkReady(link) == link = "snoop" => env.loop = <<>>

CanSpend(k) == env.budget > 0 /\ env.quota[k] # 0

CpuEvent(cmd, addr, flags) ==
    Event(EnvId(env), NO_ID, cmd, "cpu", "me", addr, 1, flags,
          IF cmd = "WriteReq" THEN WriteData ELSE NoPayload, "up0")

\* a CPU load, plain or with the atomic-lock flag
CPURead ==
    /\ env.cfg.cpu
    /\ \E a \in CpuAddrs, locked \in BOOLEAN :
          LET ev == CpuEvent("ReadReq", a, IF locked THEN {"LOCKED"} ELSE {})
              e == IF locked
                   THEN [Spend(env, a, "lock") EXCEPT !.lockedReads =
                            @ \cup {[id |-> ev.id, addr |-> addrToBlockAddr(a)]}]
                   ELSE Spend(env, a, "read")
          IN /\ CanSpend(IF locked THEN "lock" ELSE "read")
             /\ AddrOK(env, a) /\ Run(ev, "UPSTREAM", "cpu", e)

\* a CPU store
CPUWrite ==
    /\ env.cfg.cpu /\ CanSpend("write")
    /\ \E a \in CpuAddrs :
          /\ AddrOK(env, a)
          /\ Run(CpuEvent("WriteReq", a, {}), "UPSTREAM", "cpu", Spend(env, a, "write"))

\* the store that ends an atomic sequence the CPU holds the lock of
CPUUnlock ==
    /\ env.cfg.cpu /\ CanSpend("lock")
    /\ \E lr \in env.held :
          Run(CpuEvent("WriteReq", lr.addr, {"LOCKED"}), "UPSTREAM", "cpu",
              [Spend(env, lr.addr, "lock") EXCEPT !.held = @ \ {lr}])

PeerEvent(cmd, link, addr, dst, size, flags, payload) ==
    Event(EnvId(env), NO_ID, cmd, NameOfLink(link), dst, addr, size, flags, payload, link)

\* a RequestData of another cache
PeerRequest ==
    /\ CanSpend("request")
    /\ \E link \in PeerLinks(env.cfg), a \in BlockAddrs,
          dst \in {"me", "next"} :
          /\ LinkReady(link) /\ AddrOK(env, a)
          /\ (link # "snoop" => dst = "me")
          /\ Run(PeerEvent("RequestData", link, a, dst, blocksize, {}, NoPayload),
                 SrcOfLink(link), "request", Spend(env, a, "request"))

\* an Invalidate of another cache or of the level below
PeerInvalidate ==
    /\ CanSpend("invalidate")
    /\ \E link \in PeerLinks(env.cfg), a \in BlockAddrs :
          /\ LinkReady(link) /\ AddrOK(env, a)
          /\ Run(PeerEvent("Invalidate", link, a, "", 0, {}, NoPayload),
                 SrcOfLink(link), "invalidate", Spend(env, a, "invalidate"))

\* a SupplyData nobody asked this cache for: a supply or a writeback seen on
\* the snoop bus, or a writeback of an upstream cache
PeerSupply ==
    /\ CanSpend("supply")
    /\ \E link \in PeerLinks(env.cfg) \cap {"snoop", "up0", "up1"}, a \in BlockAddrs,
          flags \in {{}, {"DELAYED"}, {"WRITEBACK"}} :
          /\ LinkReady(link) /\ AddrOK(env, a)
          /\ (link # "snoop" => flags = {"WRITEBACK"})
          /\ Run(PeerEvent("SupplyData", link, a, "", blocksize, flags,
                           IF "DELAYED" \in flags THEN NoPayload ELSE FillData),
                 SrcOfLink(link), "supply", Spend(env, a, "supply"))

\* the status of the block the cache holds for addr, "" when it holds none
StatusOf(c, addr) ==
    IF findBlock(c, addr, FALSE) = NoBlock THEN ""
    ELSE Blk(c, findBlock(c, addr, FALSE)).status

\* a Fetch or FetchInvalidate of the directory
DirFetch ==
    /\ env.cfg.dir /\ CanSpend("fetch")
    /\ \E cmd \in {"Fetch", "FetchInvalidate"}, a \in BlockAddrs :
          /\ AddrOK(env, a)
          /\ Run(PeerEvent(cmd, "dir", a, "me", 0, {}, NoPayload),
                 "DIRECTORY", "fetch",
                 [Spend(env, a, "fetch") EXCEPT !.fetches =
                     @ \cup {[id |-> EnvId(env), cmd |-> cmd, addr |-> a,
                              status |-> StatusOf(cache, a)]}])

(***************************************************************************)
(* Answers of the neighbours to what the cache has sent.                   *)
(***************************************************************************)
Answer(p, cmd, flags, payload) ==
    Event(NO_ID, p.id, cmd, NameOfLink(p.link), "me", p.addr,
          IF cmd = "SupplyData" THEN blocksize ELSE 0, flags, payload, p.link)

\* the ACK of an Invalidate sent on a point-to-point link; a CPU answers no
\* Invalidate
AnswerAck ==
    \E p \in env.pend :
        /\ p.cmd = "Invalidate" /\ p.link # "snoop"
        /\ ~(env.cfg.cpu /\ p.link \in {"up0", "up1"})
        /\ Run(Answer(p, "ACK", {}, NoPayload), SrcOfLink(p.link), "ack",
               [env EXCEPT !.pend = @ \ {p}])

\* handleNACK takes the NACK of p for the NACK of a load and sends the
\* RequestData again
NackReissues(c, p) ==
    /\ p.addr \in DOMAIN c.waitingLoads
    /\ ~(p.addr \in DOMAIN c.invalidations
             /\ c.invalidations[p.addr].issuingEvent = p.id)

\* the NACK of an Invalidate or of a RequestData
AnswerNack ==
    /\ CanSpend("nack")
    /\ \E p \in env.pend :
          /\ LinkReady(p.link)
          /\ Run(Answer(p, "NACK", {}, NoPayload), SrcOfLink(p.link), "nack",
                 [env EXCEPT !.pend = @ \ {p}, !.budget = @ - 1,
                             !.quota["nack"] = IF @ > 0 THEN @ - 1 ELSE @,
                             !.reqs[p.addr] = IF NackReissues(cache, p) THEN @ - 1 ELSE @])

\* the SupplyData that answers a RequestData
AnswerSupply ==
    \E p \in env.pend :
        /\ p.cmd = "RequestData" /\ LinkReady(p.link)
        /\ Run(Answer(p, "SupplyData", {}, FillData), SrcOfLink(p.link), "fill",
               [env EXCEPT !.pend = @ \ {p}])

\* a SupplyData with the Delayed flag answers a RequestData: the block is
\* locked where it is held and its data follows later
AnswerDelayed ==
    /\ CanSpend("supply")
    /\ \E p \in env.pend :
          /\ p.cmd = "RequestData" /\ LinkReady(p.link)
          /\ Run(Answer(p, "SupplyData", {"DELAYED"}, NoPayload), SrcOfLink(p.link),
                 "delayed",
                 [env EXCEPT !.budget = @ - 1,
                             !.quota["supply"] = IF @ > 0 THEN @ - 1 ELSE @])

\* the bus grants the head request of the queue (BusClearToSend)
BusGrant ==
    /\ cache.busq # <<>> /\ env.loop = <<>>
    /\ Run([NoEvent EXCEPT !.cmd = "BusClearToSend", !.link = "snoop"], "SNOOP",
           "grant", env)

\* the bus delivers the cache's own message back to it
BusLoopback ==
    /\ env.loop # <<>>
    /\ Run([Head(env.loop) EXCEPT !.link = "snoop"], "SNOOP", "loopback",
           [env EXCEPT !.loop = Tail(@)])

(***************************************************************************)
(* The self link.                                                          *)
(***************************************************************************)
DueNow(c) == {i \in 1..Len(c.selfq) : c.selfq[i].due = 0}

\* the kernel delivers the first deferred call that is due
SelfFire ==
    /\ DueNow(cache) # {}
    /\ LET fire(i, se) ==
               Ran(handleSelfEvent([Begin(cache) EXCEPT
                                       !.selfq = SelectIdx(@, 1, (1..Len(@)) \ {i})], se),
                   env, [kind |-> "self", ev |-> se.ev, src |-> se.src, fn |-> se.fn])
       IN fire(MinOf(DueNow(cache)), cache.selfq[MinOf(DueNow(cache))].call)

\* simulated time advances to the next tick of the self link
Tick ==
    /\ cache.aborted = "" /\ cache.selfq # <<>> /\ DueNow(cache) = {}
    /\ cache' = [Begin(cache) EXCEPT
                    !.selfq = [i \in 1..Len(@) |-> [@[i] EXCEPT !.due = @ - 1]]]
    /\ env' = env
    /\ hist' = Hist("tick", NoEvent, "", "", cache)

Next ==
    \/ CPURead \/ CPUWrite \/ CPUUnlock
    \/ PeerRequest \/ PeerInvalidate \/ PeerSupply \/ DirFetch
    \/ AnswerAck \/ AnswerNack \/ AnswerSupply \/ AnswerDelayed
    \/ BusGrant \/ BusLoopback
    \/ SelfFire \/ Tick

Spec == Init /\ [][Next]_vars

\* the model's type: the tables stay within the sets the bounds give
TypeOK ==
    /\ cache.aborted \in STRING
    /\ env.budget \in Nat
    /\ \A k \in Kinds : env.quota[k] \in Int /\ env.quota[k] >= -1

(***************************************************************************)
(* An L1 cache (CPU above; a snoop bus or a lower level), with one more    *)
(* unsolicited event than Spec allows.                                     *)
(***************************************************************************)
InitL1 == InitOf({CfgL1Snoop, CfgL1Down}, MaxDeep, NoQuota)

NextL1 ==
    \/ CPURead \/ CPUWrite \/ CPUUnlock
    \/ PeerRequest \/ PeerInvalidate \/ PeerSupply
    \/ AnswerAck \/ AnswerNack \/ AnswerSupply
    \/ BusGrant \/ BusLoopback
    \/ SelfFire \/ Tick

SpecL1 == InitL1 /\ [][NextL1]_vars


(***************************************************************************)
(* An L1 cache on a snoop bus whose peers ask for a block it holds: one    *)
(* CPU read, the peers' requests and the supply of another cache.          *)
(***************************************************************************)
SupplyReads == 1
SupplyRequests == 2
SupplySupplies == 1

SupplyQuota ==
    [k \in Kinds |-> CASE k = "read" -> SupplyReads
                       [] k = "request" -> SupplyRequests
                       [] k = "supply" -> SupplySupplies
                       [] OTHER -> 0]

InitSupply ==
    InitOf({CfgL1Snoop}, SupplyReads + SupplyRequests + SupplySupplies, SupplyQuota)

NextSupply ==
    \/ CPURead
    \/ PeerRequest \/ PeerSupply
    \/ AnswerSupply
    \/ BusGrant \/ BusLoopback
    \/ SelfFire \/ Tick

SpecSupply == InitSupply /\ [][NextSupply]_vars


(***************************************************************************)
(* Invalidations in progress that an Invalidate of a neighbour or a NACK   *)
(* cancels.  The kernel delivers every event of the self link at its time  *)
(* and the bus grants every request and hands every message it has taken   *)
(* to all its listeners, hence the weak fairness of these steps.           *)
(***************************************************************************)
CancelReads == 1
CancelWrites == 1
CancelRequests == 1
CancelInvalidates == 1
CancelNacks == 1
CancelEvents == 3

CancelQuota ==
    [k \in Kinds |-> CASE k = "read" -> CancelReads
                       [] k = "write" -> CancelWrites
                       [] k = "request" -> CancelRequests
                       [] k = "invalidate" -> CancelInvalidates
                       [] k = "nack" -> CancelNacks
                       [] OTHER -> 0]

InitCancel == InitOf({CfgL1Snoop, CfgL1Down, CfgL2Incl}, CancelEvents, CancelQuota)

NextCancel ==
    \/ CPURead \/ CPUWrite
    \/ PeerRequest \/ PeerInvalidate
    \/ AnswerAck \/ AnswerNack \/ AnswerSupply
    \/ BusGrant \/ BusLoopback
    \/ SelfFire \/ Tick

\* when SelfFire, BusGrant and BusLoopback can be taken, and the steps that
\* take them (hist.kind names the action of the last step)
SelfFireReady == cache.aborted = "" /\ DueNow(cache) # {}
BusGrantReady == cache.aborted = "" /\ cache.busq # <<>> /\ env.loop = <<>>
BusLoopbackReady == cache.aborted = "" /\ env.loop # <<>>

\* weak fairness of SelfFire, BusGrant and BusLoopback, written out with the
\* conditions above: continuously ready implies taken again and again
FairKernel ==
    /\ WF_vars(Tick)
    /\ []<>(~SelfFireReady) \/ []<><<hist'.kind = "self">>_vars
    /\ []<>(~BusGrantReady) \/ []<><<hist'.kind = "grant">>_vars
    /\ []<>(~BusLoopbackReady) \/ []<><<hist'.kind = "loopback">>_vars

SpecCancel == InitCancel /\ [][NextCancel]_vars /\ FairKernel


(***************************************************************************)
(* An L1 cache on a directory network.                                     *)
(***************************************************************************)
CfgL1Dir == Config("STANDARD", 1, TRUE, FALSE, FALSE, TRUE, "fresh")

DirReads == 2
DirFetches == 2
DirEvents == 3

DirQuota ==
    [k \in Kinds |-> CASE k = "read" -> DirReads
                       [] k = "fetch" -> DirFetches
                       [] OTHER -> 0]

InitL1Dir == InitOf({CfgL1Dir}, DirEvents, DirQuota)

\* the CPU above answers no Invalidate
NextL1Dir ==
    \/ CPURead
    \/ DirFetch
    \/ AnswerSupply
    \/ SelfFire \/ Tick

SpecL1Dir == InitL1Dir /\ [][NextL1Dir]_vars

(***************************************************************************)
(* A cache below another cache, on a snoop bus with its peers and with a   *)
(* point-to-point link to the level below.                                 *)
(***************************************************************************)
CfgL2Snoop == Config("STANDARD", 1, FALSE, TRUE, TRUE, FALSE, "fresh")

BusRequests == 1
BusInvalidates == 1
BusSupplies == 1
BusNacks == 1
BusEvents == 3

BusQuota == [k \in Kinds |-> CASE k = "request" -> BusRequests
                             [] k = "invalidate" -> BusInvalidates
                             [] k = "supply" -> BusSupplies
                             [] k = "nack" -> BusNacks
                             [] OTHER -> 0]

InitL2Snoop == InitOf({CfgL2Snoop}, BusEvents, BusQuota)

NextL2Snoop ==
    \/ PeerRequest \/ PeerInvalidate \/ PeerSupply
    \/ AnswerAck \/ AnswerNack \/ AnswerSupply
    \/ BusGrant \/ BusLoopback
    \/ SelfFire \/ Tick

SpecL2Snoop == InitL2Snoop /\ [][NextL2Snoop]_vars

(***************************************************************************)
(* The same cache when the holders of a block answer its loads with the    *)
(* Delayed flag: over the bus, or from the level below.                    *)
(***************************************************************************)
DelayedSpan == 2
CfgL2SnoopFew == [CfgL2Snoop EXCEPT !.span = DelayedSpan]

DelayedRequests == 2
DelayedSupplies == 2
DelayedEvents == 4

DelayedQuota == [k \in Kinds |-> CASE k = "request" -> DelayedRequests
                                 [] k = "supply" -> DelayedSupplies
                                 [] OTHER -> 0]

InitDelayed == InitOf({CfgL2SnoopFew}, DelayedEvents, DelayedQuota)

NextDelayed ==
    \/ PeerRequest \/ PeerSupply
    \/ AnswerSupply \/ AnswerDelayed
    \/ BusGrant \/ BusLoopback
    \/ SelfFire \/ Tick

SpecDelayed == InitDelayed /\ [][NextDelayed]_vars

(***************************************************************************)
(* An L1 cache on a snoop bus that loads a block again within the tick of  *)
(* its first load: the bus fills the block early and a peer invalidates    *)
(* it. The allocator gives the second LoadInfo a fresh address, or the     *)
(* address of the first.                                                   *)
(***************************************************************************)
ReloadSpan == 1
CfgL1SnoopFresh == [CfgL1Snoop EXCEPT !.span = ReloadSpan]
CfgL1SnoopReuse == [CfgL1SnoopFresh EXCEPT !.alloc = "reuse"]

ReloadReads == 2
ReloadSupplies == 1
ReloadInvalidates == 1
ReloadEvents == 4

ReloadQuota == [k \in Kinds |-> CASE k = "read" -> ReloadReads
                                [] k = "supply" -> ReloadSupplies
                                [] k = "invalidate" -> ReloadInvalidates
                                [] OTHER -> 0]

InitReload == InitOf({CfgL1SnoopFresh, CfgL1SnoopReuse}, ReloadEvents, ReloadQuota)

NextReload ==
    \/ CPURead \/ PeerSupply \/ PeerInvalidate
    \/ AnswerSupply
    \/ BusGrant \/ BusLoopback
    \/ SelfFire \/ Tick

SpecReload == InitReload /\ [][NextReload]_vars

(***************************************************************************)
(* A cache between an upper cache and a lower level whose row is full of   *)
(* blocks that wait for their data when further requests miss.             *)
(***************************************************************************)
CfgL2Down == Config("STANDARD", 1, FALSE, TRUE, FALSE, FALSE, "fresh")

RowRequests == 3
RowInvalidates == 1
RowEvents == 4

RowQuota == [k \in Kinds |-> CASE k = "request" -> RowRequests
                             [] k = "invalidate" -> RowInvalidates
                             [] OTHER -> 0]

InitRow == InitOf({CfgL2Down}, RowEvents, RowQuota)

NextRow ==
    \/ PeerRequest \/ PeerInvalidate
    \/ AnswerSupply \/ AnswerAck
    \/ SelfFire \/ Tick

SpecRow == InitRow /\ [][NextRow]_vars

(***************************************************************************)
(* An inclusive cache with an upper cache, a lower level and a snoop bus   *)
(* that holds a block Shared when Invalidates for it arrive.               *)
(***************************************************************************)
InclSpan == 1
CfgL2InclSnoop ==
    [Config("INCLUSIVE", 1, FALSE, TRUE, TRUE, FALSE, "fresh") EXCEPT !.span = InclSpan]

InclRequests == 1
InclInvalidates == 1
InclEvents == 2

InclQuota == [k \in Kinds |-> CASE k = "request" -> InclRequests
                              [] k = "invalidate" -> InclInvalidates
                              [] OTHER -> 0]

InitIncl == InitOf({CfgL2InclSnoop}, InclEvents, InclQuota)

NextIncl ==
    \/ PeerRequest \/ PeerInvalidate
    \/ AnswerSupply \/ AnswerAck
    \/ BusGrant \/ BusLoopback
    \/ SelfFire \/ Tick

SpecIncl == InitIncl /\ [][NextIncl]_vars

(***************************************************************************)
(* Caches on a directory network whose directory fetches a block they      *)
(* hold: an L1 whose CPU writes, and an inclusive cache below one cache.   *)
(***************************************************************************)
FetchSpan == 1
CfgL1DirOne == [CfgL1Dir EXCEPT !.span = FetchSpan]
CfgL2DirOne == [CfgL2Dir EXCEPT !.span = FetchSpan]

FetchWrites == 1
FetchRequests == 1
FetchInvalidates == 1
FetchSupplies == 1
FetchFetches == 1
FetchEvents == 4

FetchQuota == [k \in Kinds |-> CASE k = "write" -> FetchWrites
                               [] k = "request" -> FetchRequests
                               [] k = "invalidate" -> FetchInvalidates
                               [] k = "supply" -> FetchSupplies
                               [] k = "fetch" -> FetchFetches
                               [] OTHER -> 0]

InitFetch == InitOf({CfgL1DirOne, CfgL2DirOne}, FetchEvents, FetchQuota)

NextFetch ==
    \/ CPUWrite
    \/ PeerRequest \/ PeerInvalidate \/ PeerSupply
    \/ DirFetch
    \/ AnswerAck \/ AnswerSupply
    \/ SelfFire \/ Tick

SpecFetch == InitFetch /\ [][NextFetch]_vars

(***************************************************************************)
(* An L1 on a directory network with one or two directory controllers,     *)
(* whose address ranges and interleaving are drawn from small sets.        *)
(***************************************************************************)
RangeStarts == {0, 2}
RangeEnds == {2, 4, 6}
Interleaves == {<<0, 0>>, <<2, 4>>}
MaxDirs == 2
TargetReads == 3

DirEntries(name) ==
    {Directory(name, s, e, il[1], il[2]) : s \in RangeStarts, e \in RangeEnds,
                                            il \in Interleaves}

DirLists ==
    {<<d>> : d \in DirEntries("dir0")}
        \cup {<<d0, d1>> : d0 \in DirEntries("dir0"), d1 \in DirEntries("dir1")}

TargetQuota == [k \in Kinds |-> IF k = "read" THEN TargetReads ELSE 0]

InitTarget ==
    \E ds \in DirLists :
        /\ Len(ds) <= MaxDirs
        /\ cache = NewCache([CfgL1Dir EXCEPT !.directories = ds])
        /\ env = InitEnv([CfgL1Dir EXCEPT !.directories = ds], TargetReads, TargetQuota)
        /\ hist = Hist("init", NoEvent, "", "", NewCache([CfgL1Dir EXCEPT !.directories = ds]))

NextTarget == CPURead \/ AnswerSupply \/ SelfFire \/ Tick

SpecTarget == InitTarget /\ [][NextTarget]_vars

\* An L1 on a directory network, all traffic on one block: locked loads, the
\* locked stores that end them, and one RequestData of the directory.
DirLockLocked == 3
DirLockRequests == 1
DirLockEvents == 4

DirLockQuota == [k \in Kinds |-> CASE k = "lock" -> DirLockLocked
                                 [] k = "request" -> DirLockRequests
                                 [] OTHER -> 0]

InitDirLock == InitOf({CfgL1DirOne}, DirLockEvents, DirLockQuota)

NextDirLock ==
    \/ CPURead \/ CPUUnlock
    \/ PeerRequest
    \/ AnswerAck \/ AnswerSupply
    \/ SelfFire \/ Tick

SpecDirLock == InitDirLock /\ [][NextDirLock]_vars

(***************************************************************************)
(* An inclusive cache below two caches that gets two Invalidates for a     *)
(* block it holds, and an L1 on a snoop bus whose CPU writes.              *)
(***************************************************************************)
RetryWrites == 1
RetryRequests == 1
RetryInvalidates == 2
RetryEvents == 3

RetryQuota == [k \in Kinds |-> CASE k = "write" -> RetryWrites
                               [] k = "request" -> RetryRequests
                               [] k = "invalidate" -> RetryInvalidates
                               [] OTHER -> 0]

InitRetry == InitOf({CfgL2Incl, CfgL1Snoop}, RetryEvents, RetryQuota)

NextRetry ==
    \/ CPUWrite
    \/ PeerRequest \/ PeerInvalidate
    \/ AnswerAck \/ AnswerSupply
    \/ BusGrant \/ BusLoopback
    \/ SelfFire \/ Tick

SpecRetry == InitRetry /\ [][NextRetry]_vars

(***************************************************************************)
(* The configurations of Spec and an L1 whose downstream link leads to the *)
(* memory: next_level is left at its default, "NONE".                      *)
(***************************************************************************)
\* An L1 with both a snoop link and a downstream link, all traffic on one
\* block: two locked loads, one RequestData and one Invalidate of a peer.
LockSpan == 1

CfgL1SnoopDown ==
    [Config("STANDARD", 1, TRUE, TRUE, TRUE, FALSE, "fresh") EXCEPT !.span = LockSpan]

LockReads == 2
LockRequests == 1
LockInvalidates == 1
LockEvents == 4

LockQuota == [k \in Kinds |-> CASE k = "lock" -> LockReads
                              [] k = "request" -> LockRequests
                              [] k = "invalidate" -> LockInvalidates
                              [] OTHER -> 0]

InitLock == InitOf({CfgL1SnoopDown}, LockEvents, LockQuota)

NextLock ==
    \/ CPURead
    \/ PeerRequest \/ PeerInvalidate
    \/ AnswerAck \/ AnswerSupply
    \/ BusGrant \/ BusLoopback
    \/ SelfFire \/ Tick

SpecLock == InitLock /\ [][NextLock]_vars

\* An L1 above a point-to-point level, all traffic on one block: two locked
\* loads and the two locked stores that end them, and one RequestData of the
\* level below.
UnlockSpan == 1

CfgL1Atomic == [CfgL1Down EXCEPT !.span = UnlockSpan]

UnlockLocked == 4
UnlockRequests == 1
UnlockEvents == 5

UnlockQuota == [k \in Kinds |-> CASE k = "lock" -> UnlockLocked
                                [] k = "request" -> UnlockRequests
                                [] OTHER -> 0]

InitUnlock == InitOf({CfgL1Atomic}, UnlockEvents, UnlockQuota)

NextUnlock ==
    \/ CPURead \/ CPUUnlock
    \/ PeerRequest
    \/ AnswerAck \/ AnswerSupply
    \/ SelfFire \/ Tick

SpecUnlock == InitUnlock /\ [][NextUnlock]_vars

CfgL1Mem == [CfgL1Down EXCEPT !.next_level = FALSE]

InitMem == InitOf(Configs \cup {CfgL1Mem}, MaxExt, NoQuota)

SpecMem == InitMem /\ [][Next]_vars


(***************************************************************************)
(* Claims.  hist.pre is the cache before the last step and cache.out what  *)
(* that step sent, so a claim about one handler run is a state predicate.  *)
(***************************************************************************)
\* the last step delivered a neighbour's Invalidate for an address of which
\* the cache held no valid block
InvalidateMiss ==
    /\ hist.kind = "invalidate"
    /\ findBlock(hist.pre, hist.ev.addr, FALSE) = NoBlock

\* c sent the ACK of event ev on the link ev came from
Acked(c, ev) ==
    \E i \in 1..Len(c.out) :
        /\ c.out[i].link = ev.link
        /\ c.out[i].ev.cmd = "ACK"
        /\ c.out[i].ev.respTo = ev.id

\* no block's status, data or lock count differs between c0 and c1
BlocksKept(c0, c1) ==
    \A b \in AllBlocks :
        /\ Blk(c1, b).status = Blk(c0, b).status
        /\ Blk(c1, b).data = Blk(c0, b).data
        /\ Blk(c1, b).locked = Blk(c0, b).locked

\* the Invalidate came from below into a cache that has served its CPU
AppliedAtOnce == hist.src \in {"DOWNSTREAM", "DIRECTORY"} /\ hist.pre.isL1

\* event ev waits in c's invalidation record of its address, for the ACKs of
\* the Invalidate the cache forwarded
HeldByInvalidation(c, ev) ==
    /\ ev.addr \in DOMAIN c.invalidations
    /\ \E i \in 1..Len(c.invalidations[ev.addr].waitingEvents) :
          c.invalidations[ev.addr].waitingEvents[i].ev.id = ev.id

\* C6 as stated: every Invalidate for an address whose block is Invalid or
\* absent is answered with an ACK to its sender and changes no block's
\* status, data or lock count.
C6_AckAndNoChange ==
    InvalidateMiss => Acked(cache, hist.ev) /\ BlocksKept(hist.pre, cache)

\* C6 amended: every Invalidate of a neighbour for an address whose block is
\* Invalid or absent changes no block's status, data or lock count, however
\* often it is repeated; the run that handles it sends the ACK to the sender
\* exactly when the Invalidate came on a point-to-point link and is not held
\* for forwarding (an Invalidate of the snoop bus is never ACKed); an L1
\* cache holds no Invalidate from below.
C6_NoChangeAckUnlessSnoopOrForwarded ==
    InvalidateMiss =>
        /\ BlocksKept(hist.pre, cache)
        /\ Acked(cache, hist.ev) <=>
              (hist.src # "SNOOP" /\ ~HeldByInvalidation(cache, hist.ev))
        /\ AppliedAtOnce => ~HeldByInvalidation(cache, hist.ev)

\* C6 witness: a second Invalidate for the same absent block is ACKed, the
\* step before having ACKed the first one
C6_RepeatedInvalidateAcked ==
    /\ InvalidateMiss /\ Acked(cache, hist.ev)
    /\ \E i \in 1..Len(hist.pre.out) :
          /\ hist.pre.out[i].ev.cmd = "ACK"
          /\ hist.pre.out[i].ev.addr = hist.ev.addr
          /\ hist.pre.out[i].ev.respTo # hist.ev.id


\* the last step delivered a CPU read that misses on a block of which a load
\* is outstanding
ReadMissOnLoad ==
    /\ hist.kind = "cpu" /\ hist.ev.cmd = "ReadReq"
    /\ findBlock(hist.pre, hist.ev.addr, FALSE) = NoBlock
    /\ addrToBlockAddr(hist.ev.addr) \in DOMAIN hist.pre.waitingLoads

\* the read was appended to the load record, and nothing else happened: no
\* message, no deferred call, no bus request, no block changed
Coalesced(c0, c1, ev) ==
    /\ c1.waitingLoads =
          [c0.waitingLoads EXCEPT ![addrToBlockAddr(ev.addr)].list =
              Append(@, LoadElement(ev, "UPSTREAM"))]
    /\ c1.out = <<>> /\ c1.selfq = c0.selfq /\ c1.busq = c0.busq
    /\ BlocksKept(c0, c1)

C4_NoLockedVictim ==
    \A v \in cache.chosen : v.locked = 0 /\ v.status # "ASSIGNED"

\* a load replaced a valid block although the other block of the row, locked
\* and Assigned to a load in flight, was touched less recently
C4_LockedLruSkipped ==
    \E v \in cache.chosen : \E b \in AllBlocks :
        /\ b # v.block /\ b[1] = v.block[1]
        /\ v.status = "SHARED"
        /\ Blk(hist.pre, b).status = "ASSIGNED" /\ Blk(cache, b).status = "ASSIGNED"
        /\ Blk(hist.pre, b).locked > 0
        /\ Blk(hist.pre, b).last_touched < Blk(hist.pre, v.block).last_touched

\* the records of the outstanding-load table that name block b as target
LoadsOn(c, b) == {a \in DOMAIN c.waitingLoads : c.waitingLoads[a].targetBlock = b}

\* C8: each block in status Assigned is the target block of exactly one
\* record of the outstanding-load table, the record of its base address
C8_AssignedHasOneLoad ==
    \A b \in AllBlocks :
        Blk(cache, b).status = "ASSIGNED" =>
            LoadsOn(cache, b) = {Blk(cache, b).baseAddr}

\* two loads in flight at once, each on a block of its own, after a load of
\* the row has been filled
C8_TwoLoadsInFlight ==
    /\ \E b1, b2 \in AllBlocks :
          /\ b1 # b2
          /\ Blk(cache, b1).status = "ASSIGNED" /\ Blk(cache, b2).status = "ASSIGNED"
          /\ Blk(cache, b1).baseAddr # Blk(cache, b2).baseAddr
    /\ hist.kind = "cpu" /\ cache.chosen # {}
    /\ \E v \in cache.chosen : v.status = "SHARED"

\* the sends of a supply of block address a to the peers on src that the
\* cache has deferred: calls of supplyData on the self link and requests in
\* the bus queue
DeferredSupplies(c, a, src) ==
    Cardinality({i \in 1..Len(c.selfq) :
                    /\ c.selfq[i].call.fn = "supplyData"
                    /\ c.selfq[i].call.src = src
                    /\ Blk(c, c.selfq[i].call.blk).baseAddr = a})
    + Cardinality({i \in 1..Len(c.busq) :
                    /\ c.busq[i].finish.fn = "finishBusSupplyData"
                    /\ c.busq[i].finish.src = src
                    /\ Blk(c, c.busq[i].finish.blk).baseAddr = a})

SourceTypes == {"UPSTREAM", "DOWNSTREAM", "SNOOP", "DIRECTORY"}

\* the supply of block address a to the peers on src is in progress and has
\* not been cancelled
SupplyActive(c, a, src) ==
    /\ <<a, src>> \in DOMAIN c.supplyInProgress
    /\ ~c.supplyInProgress[<<a, src>>].canceled

\* the last step delivered a RequestData that hit a block of which such a
\* supply to the same peers was in progress
RequestOnSupply ==
    /\ hist.kind = "request"
    /\ ~(hist.src = "SNOOP" /\ hist.ev.src = hist.pre.name)
    /\ findBlock(hist.pre, hist.ev.addr, FALSE) # NoBlock
    /\ SupplyActive(hist.pre, addrToBlockAddr(hist.ev.addr), hist.src)

\* C9: for each pair of block address and requesting peer at most one
\* uncancelled supply is in progress: a RequestData that hits while one is in
\* progress is dropped and schedules no send, and the cache never has two
\* deferred sends of a supply that is not cancelled
C9_OneSupplyPerPair ==
    /\ RequestOnSupply =>
          /\ cache.selfq = hist.pre.selfq /\ cache.busq = hist.pre.busq
          /\ cache.out = <<>>
          /\ cache.supplyInProgress = hist.pre.supplyInProgress
    /\ \A a \in BlockAddrs, src \in SourceTypes :
          SupplyActive(cache, a, src) => DeferredSupplies(cache, a, src) <= 1

\* the identifiers of the events the neighbours send
EventIds == {<<n, "env">> : n \in 1..(MaxDeep + 2)}

\* event e is scheduled for a retry, or its NACK waits for the bus
RetryScheduled(c, e) ==
    \/ \E i \in 1..Len(c.selfq) :
          c.selfq[i].call.fn = "retryEvent" /\ c.selfq[i].call.ev.id = e
    \/ \E i \in 1..Len(c.busq) :
          c.busq[i].ev.cmd = "NACK" /\ c.busq[i].ev.respTo = e

\* the last step sent the NACK of event e
Nacked(e) ==
    \E i \in 1..Len(cache.out) :
        cache.out[i].ev.cmd = "NACK" /\ cache.out[i].ev.respTo = e

ReadyIsEnabled ==
    /\ SelfFireReady <=> ENABLED SelfFire
    /\ BusGrantReady <=> ENABLED BusGrant
    /\ BusLoopbackReady <=> ENABLED BusLoopback

\* C11: a block in status Invalid leaves that status only as the slot of a
\* load, that is by becoming Assigned: no step turns an Invalid block into a
\* Shared, Exclusive or Dirty one
C11_InvalidOnlyToAssigned ==
    \A b \in AllBlocks :
        Blk(hist.pre, b).status = "INVALID" =>
            Blk(cache, b).status \in {"INVALID", "ASSIGNED"}

\* C12: a cache that has got a ReadReq or a WriteReq, and so is an L1, sends
\* no RequestData and no Invalidate on an upstream link afterwards
C12_L1SendsNothingUp ==
    hist.pre.isL1 =>
        \A i \in 1..Len(cache.out) :
            cache.out[i].link \in {"up0", "up1"} =>
                cache.out[i].ev.cmd \notin {"RequestData", "Invalidate"}


\* C13: an event from the snoop link whose origin is this cache is either
\* taken as the self-ACK of the Invalidate this cache is waiting on, or is
\* dropped: no block, table or queue changes, nothing is sent and no
\* assertion fails.
SelfOrigin == hist.kind = "loopback" /\ hist.ev.src = hist.pre.name

SelfAck ==
    /\ hist.ev.cmd = "Invalidate"
    /\ hist.ev.addr \in DOMAIN hist.pre.invalidations
    /\ hist.pre.invalidations[hist.ev.addr].issuingEvent = hist.ev.id

Discarded == Begin(cache) = Begin(hist.pre) /\ cache.out = <<>>

C13_SelfOriginConsumedOrDiscarded ==
    SelfOrigin => cache.aborted = "" /\ (SelfAck \/ Discarded)


\* C14: writebackBlock on a block whose writeback is in progress changes
\* nothing (no send, no bus request, no block change); a block has one bus
\* request for its writeback while the writeback is in progress and none
\* otherwise, and a bus grant emits at most one writeback message per link
\* and block.
WritebackTargets == {"INVALID", "SHARED", "DIRTY", "EXCLUSIVE"}

WritebacksQueued(c, b) ==
    Cardinality({i \in 1..Len(c.busq) :
                    /\ c.busq[i].finish.fn = "finishWritebackBlockVA"
                    /\ c.busq[i].finish.blk = b})

WritebacksSent(c, link, a) ==
    Cardinality({i \in 1..Len(c.out) :
                    /\ c.out[i].link = link
                    /\ c.out[i].ev.cmd = "SupplyData"
                    /\ "WRITEBACK" \in c.out[i].ev.flags
                    /\ c.out[i].ev.addr = a})

C14_WritebackOnce ==
    \A b \in AllBlocks :
        /\ Blk(cache, b).wb_in_progress =>
              \A st \in WritebackTargets : writebackBlock(cache, b, st) = cache
        /\ WritebacksQueued(cache, b) = IF Blk(cache, b).wb_in_progress THEN 1 ELSE 0
        /\ hist.kind = "grant" =>
              \A link \in {"snoop", "down", "dir"} :
                  WritebacksSent(cache, link, Blk(hist.pre, b).baseAddr) <= 1

\* an Invalidate for an Exclusive block whose writeback waits for the bus:
\* handleInvalidate calls writebackBlock again
C14_SecondWriteback ==
    /\ hist.kind = "invalidate" /\ cache.aborted = ""
    /\ \E b \in AllBlocks :
          /\ Blk(hist.pre, b).baseAddr = hist.ev.addr
          /\ Blk(hist.pre, b).status = "EXCLUSIVE"
          /\ Blk(hist.pre, b).wb_in_progress
          /\ ~waitingForInvalidate(hist.pre, hist.ev.addr)
          /\ Blk(cache, b).wb_in_progress


\* C15: when a writeback to Invalid completes the block is not locked:
\* finishWritebackBlock never finds the block locked after it has set the
\* status to Invalid (its ASSERT(!block->isLocked()) never fails).
C15_InvalidWritebackUnlocked == cache.aborted # "ASSERT(!block->isLocked())"


\* C16: an ACK that answers the Invalidate of an invalidation in progress,
\* or the cache's own Invalidate seen on the snoop bus, takes one from
\* waitingACKs. While ACKs remain the record is otherwise unchanged, the
\* target block is untouched and nothing is replayed. With the last ACK the
\* held events are dispatched again in the order they were held, the first
\* with firstPhaseComplete = true and the others with false; the first finds
\* the record erased and the target block unlocked and in the new status.
AckedInvalidation ==
    /\ hist.ev.addr \in DOMAIN hist.pre.invalidations
    /\ \/ /\ hist.kind = "ack"
          /\ hist.ev.respTo = hist.pre.invalidations[hist.ev.addr].issuingEvent
       \/ hist.kind = "loopback" /\ hist.ev.cmd = "Invalidate"

ReplayedOf(c, inv) == SelectSeq(c.replayed, LAMBDA r : r.inv = inv.issuingEvent)

AckCounted(inv) ==
    /\ hist.ev.addr \in DOMAIN cache.invalidations
    /\ cache.invalidations[hist.ev.addr] = [inv EXCEPT !.waitingACKs = @ - 1]
    /\ cache.replayed = <<>>
    /\ inv.block # NoBlock => Blk(cache, inv.block) = Blk(hist.pre, inv.block)

AckFinished(inv) ==
    LET R == ReplayedOf(cache, inv)
        q == inv.waitingEvents
    IN /\ Len(R) = Len(q) /\ Len(q) > 0
       /\ \A i \in 1..Len(q) :
             R[i].ev = q[i].ev.id /\ R[i].src = q[i].src /\ R[i].first = (i = 1)
       /\ R[1].records = DOMAIN hist.pre.invalidations \ {hist.ev.addr}
       /\ inv.block # NoBlock =>
             /\ R[1].status = inv.newStatus
             /\ R[1].locked = Blk(hist.pre, inv.block).locked - 1

C16_AckCountsThenReplays ==
    (AckedInvalidation /\ cache.aborted = "") =>
        LET inv == hist.pre.invalidations[hist.ev.addr]
        IN IF inv.waitingACKs = 1 THEN AckFinished(inv) ELSE AckCounted(inv)

\* the last ACK of an invalidation that holds two events
C16_LastAckReplaysTwo ==
    /\ AckedInvalidation /\ cache.aborted = ""
    /\ hist.pre.invalidations[hist.ev.addr].waitingACKs = 1
    /\ Len(hist.pre.invalidations[hist.ev.addr].waitingEvents) >= 2
    /\ hist.pre.invalidations[hist.ev.addr].block # NoBlock


\* C17: issueInvalidate expects one ACK per copy of the Invalidate it
\* emits: one for the snoop bus when there is a snoop link, one for the
\* downstream link and one for the directory link when the direction
\* includes Down, one for every upstream link when the direction includes
\* Up, but for the link that delivered the triggering event when that event
\* is for the invalidated block; with no ACK to wait for the invalidation
\* completes at once.
GoesDown(g) == g.direction \in {"SEND_DOWN", "SEND_BOTH"}
GoesUp(g) == g.direction \in {"SEND_UP", "SEND_BOTH"}

UpCopies(c, g) ==
    IF GoesUp(g)
    THEN Cardinality({l \in UpLinks(c) : l # g.link \/ g.evAddr # g.addr})
    ELSE 0

\* the count as the claim gives it
CopiesPerLink(c, g) ==
    (IF c.snoop_link THEN 1 ELSE 0)
    + (IF GoesDown(g) /\ c.downstream_link THEN 1 ELSE 0)
    + (IF GoesDown(g) /\ c.directory_link THEN 1 ELSE 0)
    + UpCopies(c, g)

\* the count with the downstream copy only where a next level is named
CopiesPerEnabledLink(c, g) ==
    (IF c.snoop_link THEN 1 ELSE 0)
    + (IF GoesDown(g) /\ c.downstream_link /\ c.next_level THEN 1 ELSE 0)
    + (IF GoesDown(g) /\ c.directory_link THEN 1 ELSE 0)
    + UpCopies(c, g)

\* the copies of Invalidate id that left on a link or wait for the bus
CopiesEmitted(c, id) ==
    Cardinality({i \in 1..Len(c.out) :
                    /\ c.out[i].ev.cmd = "Invalidate" /\ c.out[i].ev.id = id
                    /\ c.out[i].link # "snoop"})
    + Cardinality({i \in 1..Len(c.busq) :
                    c.busq[i].ev.cmd = "Invalidate" /\ c.busq[i].ev.id = id})

InvalidationLive(c, g) ==
    /\ g.addr \in DOMAIN c.invalidations
    /\ c.invalidations[g.addr].issuingEvent = g.id

CompletedAtOnce(c, g) ==
    /\ ~InvalidationLive(c, g)
    /\ \E i \in 1..Len(c.replayed) : c.replayed[i].inv = g.id

C17_AcksPerLink ==
    \A g \in cache.issued :
        /\ g.acks = CopiesPerLink(cache, g)
        /\ g.acks = 0 => CompletedAtOnce(cache, g)

\* amended: the downstream link gets its copy only when a next level is named
C17_AcksPerEnabledLink ==
    \A g \in cache.issued :
        /\ g.acks = CopiesPerEnabledLink(cache, g)
        /\ g.acks = 0 <=> CompletedAtOnce(cache, g)
        /\ InvalidationLive(cache, g) =>
              /\ cache.invalidations[g.addr].waitingACKs = g.acks
              /\ CopiesEmitted(cache, g.id) = g.acks

\* a CPU write to a Shared block of an L1 above the memory: no copy is sent
\* and the invalidation completes in the call
C17_NoCopyCompletes ==
    \E g \in cache.issued :
        /\ GoesDown(g) /\ cache.downstream_link /\ ~cache.next_level
        /\ g.acks = 0 /\ CompletedAtOnce(cache, g)


\* C18: an Invalidate that arrives for a block with an invalidation in
\* progress cancels that invalidation when it is cancelable: the record is
\* gone, its bus request has left the queue, the lock it took on the block
\* is released and every event it held waits for its retry on the self
\* link. When it is not cancelable the record stays as it was, nothing is
\* sent (no ACK) and the Invalidate waits for its retry on the self link.
InvalidateArrives ==
    /\ hist.ev.cmd = "Invalidate" /\ cache.aborted = ""
    /\ hist.kind = "invalidate" \/ (hist.kind = "self" /\ hist.fn = "retryEvent")
    /\ ~(hist.src = "SNOOP" /\ hist.ev.src = hist.pre.name)

BusyBlock == findBlock(hist.pre, hist.ev.addr, FALSE)

InvalidateOnBusyBlock ==
    /\ InvalidateArrives
    /\ BusyBlock # NoBlock
    /\ waitingForInvalidate(hist.pre, Blk(hist.pre, BusyBlock).baseAddr)

\* the lock a writeback takes when it asks for the bus
WritebackLock(b) ==
    IF Blk(cache, b).wb_in_progress /\ ~Blk(hist.pre, b).wb_in_progress /\ cache.snoop_link
    THEN 1 ELSE 0

InvalidationCancelled(b, inv) ==
    LET addr == Blk(hist.pre, b).baseAddr
    IN /\ ~(addr \in DOMAIN cache.invalidations
               /\ cache.invalidations[addr].issuingEvent = inv.issuingEvent)
       /\ \A i \in 1..Len(cache.busq) :
             ~(cache.busq[i].ev.cmd = "Invalidate"
                  /\ cache.busq[i].ev.id = inv.issuingEvent)
       /\ Blk(cache, b).locked =
             Blk(hist.pre, b).locked - (IF inv.block = b THEN 1 ELSE 0)
                + WritebackLock(b)
       /\ \A i \in 1..Len(inv.waitingEvents) :
             \E j \in 1..Len(cache.selfq) :
                 /\ cache.selfq[j].call.fn = "retryEvent"
                 /\ cache.selfq[j].call.ev.id = inv.waitingEvents[i].ev.id
                 /\ cache.selfq[j].due = 1

InvalidateDeferred(b, inv) ==
    LET addr == Blk(hist.pre, b).baseAddr
    IN /\ addr \in DOMAIN cache.invalidations
       /\ cache.invalidations[addr] = inv
       /\ cache.out = <<>>
       /\ cache.blocks = hist.pre.blocks
       /\ \E j \in 1..Len(cache.selfq) :
             /\ cache.selfq[j].call.fn = "retryEvent"
             /\ cache.selfq[j].call.ev.id = hist.ev.id
             /\ cache.selfq[j].due > 0

C18_CancelOrDefer ==
    InvalidateOnBusyBlock =>
        LET inv == hist.pre.invalidations[Blk(hist.pre, BusyBlock).baseAddr]
        IN IF inv.canCancel THEN InvalidationCancelled(BusyBlock, inv)
           ELSE InvalidateDeferred(BusyBlock, inv)

\* an Invalidate finds an invalidation that is not cancelable
C18_DeferredOnBusy ==
    /\ InvalidateOnBusyBlock
    /\ ~hist.pre.invalidations[Blk(hist.pre, BusyBlock).baseAddr].canCancel
    /\ Len(hist.pre.invalidations[Blk(hist.pre, BusyBlock).baseAddr].waitingEvents) > 0


\* C19: a CPU ReadReq or WriteReq that hits a block whose address has an
\* invalidation in progress is appended to the events that invalidation
\* holds: no response is scheduled, nothing is sent, and the block's data
\* and user lock count stay as they are.
CpuHitBlock == findBlock(hist.pre, hist.ev.addr, FALSE)

CpuHitsInvalidating ==
    /\ hist.kind = "cpu" /\ cache.aborted = ""
    /\ CpuHitBlock # NoBlock
    /\ waitingForInvalidate(hist.pre, Blk(hist.pre, CpuHitBlock).baseAddr)

HeldForReplay(b) ==
    LET addr == Blk(hist.pre, b).baseAddr
    IN /\ addr \in DOMAIN cache.invalidations
       /\ cache.invalidations[addr] =
             [hist.pre.invalidations[addr] EXCEPT
                 !.waitingEvents = Append(@, [ev |-> hist.ev, src |-> "UPSTREAM"])]
       /\ cache.selfq = hist.pre.selfq
       /\ cache.out = <<>>
       /\ Blk(cache, b).data = Blk(hist.pre, b).data
       /\ Blk(cache, b).user_locked = Blk(hist.pre, b).user_locked
       /\ Blk(cache, b).status = Blk(hist.pre, b).status

C19_CpuHitHeldByInvalidation == CpuHitsInvalidating => HeldForReplay(CpuHitBlock)


\* C20: the payload of a CPU WriteReq is copied into a block only while the
\* block is Exclusive. A WriteReq that hits a block in another status, with
\* no invalidation in progress for it, issues an Invalidate in both
\* directions with Exclusive as the status to reach; while that invalidation
\* waits for its ACKs the WriteReq is held by it, the block's data is as it
\* was and no response is scheduled.
WriteHitBlock == findBlock(hist.pre, hist.ev.addr, FALSE)

WriteHitsShared ==
    /\ hist.kind = "cpu" /\ hist.ev.cmd = "WriteReq" /\ cache.aborted = ""
    /\ WriteHitBlock # NoBlock
    /\ Blk(hist.pre, WriteHitBlock).status # "EXCLUSIVE"
    /\ ~waitingForInvalidate(hist.pre, Blk(hist.pre, WriteHitBlock).baseAddr)

UpgradeIssued(b) ==
    \E g \in cache.issued :
        /\ g.addr = Blk(hist.pre, b).baseAddr /\ g.direction = "SEND_BOTH"
        /\ IF InvalidationLive(cache, g)
           THEN /\ cache.invalidations[g.addr].newStatus = "EXCLUSIVE"
                /\ cache.invalidations[g.addr].block = b
                /\ cache.invalidations[g.addr].waitingEvents =
                      <<[ev |-> hist.ev, src |-> "UPSTREAM"]>>
                /\ Blk(cache, b).data = Blk(hist.pre, b).data
                /\ cache.selfq = hist.pre.selfq
                /\ cache.written = {}
           ELSE /\ g.acks = 0
                /\ \E i \in 1..Len(cache.replayed) :
                      /\ cache.replayed[i].inv = g.id
                      /\ cache.replayed[i].ev = hist.ev.id
                      /\ cache.replayed[i].status = "EXCLUSIVE"

C20_WriteOnlyExclusive ==
    /\ \A w \in cache.written : w.cmd = "WriteReq" => w.status = "EXCLUSIVE"
    /\ WriteHitsShared => UpgradeIssued(WriteHitBlock)

\* the last ACK of an upgrade: the held WriteReq is replayed and written
C20_UpgradeThenWrite ==
    /\ hist.kind \in {"ack", "loopback"} /\ cache.aborted = ""
    /\ \E w \in cache.written :
          /\ w.cmd = "WriteReq" /\ w.status = "EXCLUSIVE"
          /\ Blk(hist.pre, w.block).status = "SHARED"
          /\ \E i \in 1..Len(cache.replayed) : cache.replayed[i].ev = w.id


\* C10: the events held by an invalidation, by an outstanding load or by a
\* row's waiting queue are dispatched again in the order in which they were
\* queued: the replay of a finished invalidation and of a filled load hands
\* them to handleIncomingEvent front to back, and a cancelled invalidation
\* and a drained row queue put their retries on the self link front to back
\* with one delay, so that the self link delivers them in that order.
HeldIds(q) == [i \in 1..Len(q) |-> [ev |-> q[i].ev.id, src |-> q[i].src]]

InvReplayFifo ==
    \A a \in DOMAIN hist.pre.invalidations :
        LET inv == hist.pre.invalidations[a]
            R == ReplayedOf(cache, inv)
        IN R # <<>> =>
              [i \in 1..Len(R) |-> [ev |-> R[i].ev, src |-> R[i].src]]
                 = HeldIds(inv.waitingEvents)

\* the events of a load's list that a fill seen on src dispatches again
Redispatched(e, src) == e.ev # NoEvent /\ ~(src = "SNOOP" /\ e.src = "SNOOP")

LoadReplayFifo ==
    \A a \in DOMAIN hist.pre.waitingLoads :
        LET list == hist.pre.waitingLoads[a].list
            R == SelectSeq(cache.reloaded, LAMBDA r : r.addr = a)
        IN R # <<>> =>
              /\ \A k \in 1..Len(R) :
                    R[k].n <= Len(list) =>
                       /\ list[R[k].n].ev.id = R[k].ev
                       /\ list[R[k].n].src = R[k].src
              /\ \A k \in 1..(Len(R) - 1) : R[k].n < R[k + 1].n
              /\ \A n \in 1..Len(list) :
                    Redispatched(list[n], R[1].by) => \E k \in 1..Len(R) : R[k].n = n

\* the queue of the state before the step that a drain empties; the events
\* the step itself adds to the queue before it drains it follow these
DrainedQueue(d) ==
    IF d.kind = "row"
    THEN IF d.key[2] \in DOMAIN hist.pre.rowWaiting[d.key[1]]
         THEN hist.pre.rowWaiting[d.key[1]][d.key[2]] ELSE <<>>
    ELSE IF d.key[1] \in DOMAIN hist.pre.invalidations
         THEN hist.pre.invalidations[d.key[1]].waitingEvents ELSE <<>>

FirstDrain(i) == \A j \in 1..(i - 1) : cache.drains[j].key # cache.drains[i].key

RetryFifo ==
    \A i \in 1..Len(cache.drains) :
        LET d == cache.drains[i]
            R == SubSeq(cache.retried, d.from, d.from + d.n - 1)
        IN /\ Len(R) = d.n
           /\ FirstDrain(i) =>
                 /\ Len(DrainedQueue(d)) <= Len(R)
                 /\ [k \in 1..Len(DrainedQueue(d)) |-> [ev |-> R[k].ev, src |-> R[k].src]]
                       = HeldIds(DrainedQueue(d))
           /\ \A k \in 1..Len(R) :
                 /\ R[k].at <= Len(cache.selfq)
                 /\ cache.selfq[R[k].at].due = 1
                 /\ cache.selfq[R[k].at].call.fn = "retryEvent"
                 /\ cache.selfq[R[k].at].call.ev.id = R[k].ev
                 /\ cache.selfq[R[k].at].call.src = R[k].src
           /\ \A k \in 1..(Len(R) - 1) : R[k].at < R[k + 1].at

LockedReadArrives ==
    /\ \/ hist.kind = "cpu"
       \/ hist.kind = "self" /\ hist.fn = "retryEvent" /\ hist.src = "UPSTREAM"
    /\ hist.ev.cmd = "ReadReq" /\ "LOCKED" \in hist.ev.flags
    /\ cache.aborted = ""

LockedReadOnDemoting ==
    /\ LockedReadArrives
    /\ CpuHitBlock # NoBlock
    /\ Blk(hist.pre, CpuHitBlock).status = "EXCLUSIVE"
    /\ \/ Blk(hist.pre, CpuHitBlock).wb_in_progress
       \/ snoopSupplyActive(hist.pre, Blk(hist.pre, CpuHitBlock).baseAddr)

ResponsesTo(c, id) ==
    {i \in 1..Len(c.selfq) : /\ c.selfq[i].call.fn = "sendCPUResponse"
                             /\ c.selfq[i].call.ev.respTo = id}

NoLockNoResponse(b) ==
    /\ Blk(cache, b).user_locked = Blk(hist.pre, b).user_locked
    /\ Cardinality(ResponsesTo(cache, hist.ev.id)) =
          Cardinality(ResponsesTo(hist.pre, hist.ev.id))
    /\ cache.out = <<>>

RetriedNextTick ==
    \E i \in 1..Len(cache.selfq) :
        /\ cache.selfq[i].due = 1
        /\ cache.selfq[i].call.fn = "retryEvent"
        /\ cache.selfq[i].call.ev = hist.ev
        /\ cache.selfq[i].call.src = "UPSTREAM"

C21_LockedReadPunted ==
    LockedReadOnDemoting => NoLockNoResponse(CpuHitBlock) /\ RetriedNextTick

\* the punted read is itself a retry: it is punted a second time
C21_PuntedTwice ==
    LockedReadOnDemoting /\ hist.kind = "self" /\ RetriedNextTick


\* C22: a deferred supply that fires while the block's user_locked is above
\* zero sets user_lock_needs_wb and answers with the Delayed flag and no
\* payload; and when user_locked of a block returns to zero while a
\* neighbour still waits for the data of such an answer, a writeback to
\* Shared is issued in that run (the data are sent, or the writeback waits
\* for the bus), also when further locked reads have hit the block.
AllLinks == {"up0", "up1", "down", "dir", "snoop"}

SuppliedBlock == findBlock(hist.pre, hist.ev.addr, FALSE)

SupplyFiresLocked ==
    /\ hist.kind = "self" /\ hist.fn = "supplyData" /\ cache.aborted = ""
    /\ SuppliedBlock # NoBlock
    /\ <<Blk(hist.pre, SuppliedBlock).baseAddr, hist.src>> \in DOMAIN hist.pre.supplyInProgress
    /\ ~hist.pre.supplyInProgress[<<Blk(hist.pre, SuppliedBlock).baseAddr, hist.src>>].canceled
    /\ Blk(hist.pre, SuppliedBlock).user_locked > 0

DelayedReply(b) ==
    /\ Blk(cache, b).user_lock_needs_wb
    /\ IF hist.src = "SNOOP"
       THEN /\ Len(cache.busq) = Len(hist.pre.busq) + 1
            /\ Last(cache.busq).ev.cmd = "SupplyData"
            /\ "DELAYED" \in Last(cache.busq).ev.flags
            /\ Last(cache.busq).ev.payload = NoPayload
       ELSE \E m \in Sent(cache, {"SupplyData"}, AllLinks) :
               /\ m.ev.addr = Blk(hist.pre, b).baseAddr
               /\ "DELAYED" \in m.ev.flags /\ m.ev.payload = NoPayload

\* what goes out with the Delayed flag carries no payload
DelayedCarriesNothing ==
    \A m \in Sent(cache, {"SupplyData"}, AllLinks) :
        "DELAYED" \in m.ev.flags => m.ev.payload = NoPayload

\* the run that brings user_locked of block b back to zero
Unlocked(b) ==
    /\ cache.aborted = ""
    /\ Blk(hist.pre, b).user_locked > 0 /\ Blk(cache, b).user_locked = 0
    /\ isValid(Blk(cache, b))
    /\ Blk(cache, b).baseAddr = Blk(hist.pre, b).baseAddr

UnlockWritesBack ==
    \A b \in AllBlocks :
        Unlocked(b) /\ Blk(cache, b).baseAddr \in env.delayed =>
           Blk(cache, b).wb_in_progress

C22_DelayedThenWriteback ==
    /\ SupplyFiresLocked => DelayedReply(SuppliedBlock)
    /\ cache.aborted = "" => DelayedCarriesNothing
    /\ UnlockWritesBack


\* C23: when the deferred send of a supply that was marked canceled fires, no
\* SupplyData is sent, no request is put on the bus queue and the block's
\* status stays as it was, also when another RequestData of the same peer
\* for the block arrived after the cancellation.
CanceledSupplyFires ==
    /\ hist.kind = "self" /\ hist.fn = "supplyData"
    /\ hist.ev.id \in env.dropped

SupplyDropped ==
    /\ cache.aborted = ""
    /\ Sent(cache, {"SupplyData"}, AllLinks) = {}
    /\ cache.busq = hist.pre.busq
    /\ \A b \in AllBlocks : Blk(cache, b).status = Blk(hist.pre, b).status

C23_CanceledSupplySendsNothing == CanceledSupplyFires => SupplyDropped

\* a SupplyData that carries data arrives for an outstanding load that has a
\* target block
FillArrives ==
    /\ hist.kind \in {"fill", "supply"}
    /\ hist.ev.cmd = "SupplyData"
    /\ "DELAYED" \notin hist.ev.flags
    /\ ~(hist.src = "SNOOP" /\ hist.ev.src = hist.pre.name)
    /\ hist.ev.addr \in DOMAIN hist.pre.waitingLoads
    /\ hist.pre.waitingLoads[hist.ev.addr].targetBlock # NoBlock

FilledLoad == hist.pre.waitingLoads[hist.ev.addr]

\* the replays of the filled load, in the order the fill made them
FillReplays == SelectSeq(cache.reloaded, LAMBDA r : r.addr = hist.ev.addr)

\* the target block as the first replayed event finds it, or as the fill
\* leaves it when it replays nothing
FilledBlock ==
    IF FillReplays # <<>> THEN FillReplays[1].block
    ELSE Blk(cache, FilledLoad.targetBlock)

BlockFilled ==
    /\ FilledBlock.status = "SHARED"
    /\ ~isLocked(FilledBlock)
    /\ FilledBlock.loadInfo = NULL
    /\ FilledBlock.data
          = Blk(updateBlock(hist.pre, hist.ev, FilledLoad.targetBlock),
                FilledLoad.targetBlock).data

\* the entries of the load's list that the fill dispatched again are exactly
\* those that keep(entry) names, in the order of the list
ReplaysExactly(keep(_)) ==
    /\ \A k \in 1..Len(FillReplays) :
          /\ FillReplays[k].n <= Len(FilledLoad.list)
          /\ FilledLoad.list[FillReplays[k].n].ev # NoEvent
          /\ FilledLoad.list[FillReplays[k].n].ev.id = FillReplays[k].ev
    /\ \A k \in 1..(Len(FillReplays) - 1) : FillReplays[k].n < FillReplays[k + 1].n
    /\ \A n \in 1..Len(FilledLoad.list) :
          keep(FilledLoad.list[n]) <=> \E k \in 1..Len(FillReplays) : FillReplays[k].n = n

NotFromSnoop(e) == e.src # "SNOOP"

KeptByFill(e) == Redispatched(e, hist.src)

\* the row of the filled block
FilledRow == findRowIdx(hist.ev.addr)

\* the events that waited on the row under the address key are retried
RowKeyTried(key) ==
    \A i \in 1..Len(hist.pre.rowWaiting[FilledRow][key]) :
        \E k \in 1..Len(cache.retried) :
            /\ cache.retried[k].ev = hist.pre.rowWaiting[FilledRow][key][i].ev.id
            /\ cache.retried[k].src = hist.pre.rowWaiting[FilledRow][key][i].src

RowTried == \A key \in DOMAIN hist.pre.rowWaiting[FilledRow] : RowKeyTried(key)

FillCompletes ==
    /\ cache.aborted = ""
    /\ BlockFilled
    /\ hist.ev.addr \notin DOMAIN cache.waitingLoads

\* C24: a SupplyData that is not Delayed, for an outstanding load with a target
\* block, copies its payload into the block, makes the block Shared and
\* unlocked, removes the load record, dispatches again every queued entry in
\* order except the snoop-sourced ones, and then tries the events that wait on
\* the row
C24_FillReplaysAllButSnoop ==
    FillArrives => FillCompletes /\ ReplaysExactly(NotFromSnoop) /\ RowTried

\* a SupplyData with the Delayed flag arrives for an outstanding load that
\* has a target block, which is Assigned
DelayedArrives ==
    /\ hist.kind \in {"delayed", "supply"}
    /\ hist.ev.cmd = "SupplyData"
    /\ "DELAYED" \in hist.ev.flags
    /\ ~(hist.src = "SNOOP" /\ hist.ev.src = hist.pre.name)
    /\ hist.ev.addr \in DOMAIN hist.pre.waitingLoads
    /\ hist.pre.waitingLoads[hist.ev.addr].targetBlock # NoBlock
    /\ isAssigned(Blk(hist.pre, hist.pre.waitingLoads[hist.ev.addr].targetBlock))

DelayedLoad == hist.pre.waitingLoads[hist.ev.addr]

DelayedBlock == DelayedLoad.targetBlock

FromSnoop(e) == e.src = "SNOOP"

FromSnoopLikeFill(e) == e.src = "SNOOP" /\ hist.src = "SNOOP"

\* the Delayed fill leaves the data alone and drops the entries drop(entry)
\* names; the load goes on when an entry remains (its request on the bus
\* queue, if any, is withdrawn) and is given up otherwise
DelayedHandled(drop(_)) ==
    /\ cache.aborted = ""
    /\ Blk(cache, DelayedBlock).data = Blk(hist.pre, DelayedBlock).data
    /\ IF \E n \in 1..Len(DelayedLoad.list) : ~drop(DelayedLoad.list[n])
       THEN /\ hist.ev.addr \in DOMAIN cache.waitingLoads
            /\ cache.waitingLoads[hist.ev.addr]
                  = [DelayedLoad EXCEPT
                       !.busEvent = NULL,
                       !.list = [n \in 1..Len(DelayedLoad.list) |->
                                   IF drop(DelayedLoad.list[n])
                                   THEN [DelayedLoad.list[n] EXCEPT !.ev = NoEvent]
                                   ELSE DelayedLoad.list[n]]]
            /\ Blk(cache, DelayedBlock).status = "ASSIGNED"
            /\ isLocked(Blk(cache, DelayedBlock))
            /\ Blk(cache, DelayedBlock).loadInfo = DelayedLoad.lid
       ELSE /\ hist.ev.addr \notin DOMAIN cache.waitingLoads
            /\ Blk(cache, DelayedBlock).status = "INVALID"
            /\ ~isLocked(Blk(cache, DelayedBlock))
            /\ Blk(cache, DelayedBlock).loadInfo = NULL

\* C25 as stated: a SupplyData with the Delayed flag, for an outstanding load
\* with a target block, leaves the block's data alone and drops the queued
\* snoop-sourced entries; when entries remain the block stays Assigned and
\* locked and the load record is kept, when none remain the record is
\* destroyed and the block is Invalid and unlocked
C25_DelayedDropsSnoop == DelayedArrives => DelayedHandled(FromSnoop)

\* C25 amended: the queued snoop-sourced entries are dropped when the Delayed
\* SupplyData itself arrived over the snoop bus; a Delayed SupplyData of
\* another link drops nothing, so the load goes on
C25_DelayedDropsSnoopOfBus == DelayedArrives => DelayedHandled(FromSnoopLikeFill)

\* a Delayed SupplyData from the level below finds a request of the bus queued
\* on the load
C25_DelayedFromBelow ==
    /\ DelayedArrives
    /\ hist.src = "DOWNSTREAM"
    /\ \E n \in 1..Len(DelayedLoad.list) : FromSnoop(DelayedLoad.list[n])

\* the deferred request step of a load fires
LoadStepFires == hist.kind = "self" /\ hist.fn = "finishLoadBlock"

\* the deferred call that fired, as it stood on the self link
FiredCall == hist.pre.selfq[MinOf(DueNow(hist.pre))]

\* the load records of the state before the step that the call was made for
LoadsOfCall ==
    {a \in DOMAIN hist.pre.waitingLoads :
        /\ hist.pre.waitingLoads[a].made = FiredCall.made
        /\ hist.pre.waitingLoads[a].lid = FiredCall.call.li}

\* the block still waits for the load the call was made for
LoadStillWaits ==
    /\ LoadsOfCall # {}
    /\ Blk(hist.pre, FiredCall.call.blk).loadInfo = FiredCall.call.li
    /\ Blk(hist.pre, FiredCall.call.blk).baseAddr = FiredCall.call.addr
    /\ \/ Blk(hist.pre, FiredCall.call.blk).status = "ASSIGNED"
       \/ /\ Blk(hist.pre, FiredCall.call.blk).status = "DIRTY"
          /\ \A a \in LoadsOfCall : hist.pre.waitingLoads[a].loadDirection = "SEND_UP"

RequestsSent ==
    {i \in 1..Len(cache.out) : cache.out[i].ev.cmd = "RequestData"}

\* the step sent nothing and left the cache as it was
LoadStepIdle ==
    /\ cache.aborted = ""
    /\ cache.out = <<>>
    /\ cache.busq = hist.pre.busq
    /\ cache.blocks = hist.pre.blocks
    /\ cache.waitingLoads = hist.pre.waitingLoads
    /\ cache.invalidations = hist.pre.invalidations
    /\ cache.supplyInProgress = hist.pre.supplyInProgress
    /\ cache.rowWaiting = hist.pre.rowWaiting
    /\ Len(cache.selfq) = Len(hist.pre.selfq) - 1

\* C26: the deferred request step of a load sends a RequestData only when the
\* block is still Assigned (or Dirty while the load goes up), still has the
\* base address and still refers to the load record the step was made for;
\* otherwise it sends nothing and changes nothing
C26_StaleLoadStepIdle == LoadStepFires /\ ~LoadStillWaits => LoadStepIdle

\* nothing is left to do: no deferred call, no bus traffic, no answer owed
Quiescent ==
    /\ cache.aborted = ""
    /\ cache.selfq = <<>>
    /\ cache.busq = <<>>
    /\ env.pend = {}
    /\ env.loop = <<>>

RowHasUnlocked(r) == \E w \in Ways : ~isLocked(cache.blocks[r][w])

\* C27: an event queued on a row because every way was locked is dispatched
\* again once a block of the row is unlocked, whatever the number of block
\* addresses that wait on the row: when the cache has come to rest and a way
\* of the row is unlocked, no event waits on the row
C27_RowWaitersRetried ==
    Quiescent => \A r \in Rows : RowHasUnlocked(r) => DOMAIN cache.rowWaiting[r] = {}

\* every Invalidate the last step applied to a Shared block gave the block
\* the status that after(src) names
SharedInvalidatedTo(after(_)) ==
    \A i \in cache.invalidated :
        /\ Blk(hist.pre, i.block).status = "SHARED"
        /\ i.status = after(i.src)

DirtyFromUpstream(src) ==
    IF cache.mode = "INCLUSIVE" /\ src = "UPSTREAM" THEN "DIRTY" ELSE "INVALID"

DirtyFromAbove(src) ==
    IF cache.mode = "INCLUSIVE" /\ src \in {"UPSTREAM", "SNOOP"} THEN "DIRTY"
    ELSE "INVALID"

\* C28 as stated: an Invalidate accepted for a Shared block makes the block
\* Invalid, or Dirty when the cache is INCLUSIVE and the Invalidate came from
\* upstream; from the snoop bus, downstream or the directory it always makes
\* the block Invalid
C28_SharedInvalidated == SharedInvalidatedTo(DirtyFromUpstream)

\* C28 amended: in INCLUSIVE mode an Invalidate of the snoop bus makes the
\* Shared block Dirty as one from upstream does; one from downstream or the
\* directory makes it Invalid
C28_SharedInvalidatedFromAbove == SharedInvalidatedTo(DirtyFromAbove)

\* an inclusive cache applied an Invalidate of the snoop bus to a Shared block
C28_InclusiveSnoopInvalidate ==
    /\ cache.mode = "INCLUSIVE"
    /\ \E i \in cache.invalidated : i.src = "SNOOP"

(***************************************************************************)
(* An Invalidate for an Exclusive block.                                   *)
(***************************************************************************)
\* the Invalidates that found their block Exclusive and that the cache owes
\* an ACK: the ones that did not come over the snoop bus
AwaitedForAck == {x \in env.awaited : x.src # "SNOOP"}

\* the last handler run sent the ACK of x
AckSentFor(x) ==
    \E m \in Sent(cache, {"ACK"}, {"up0", "up1", "down", "dir"}) : m.ev.respTo = x.id

\* the Invalidate x waits on the queue of its row, or its retry is on the
\* self link
WaitsOnRow(x) ==
    \E r \in Rows : \E a \in DOMAIN cache.rowWaiting[r] :
        \E i \in 1..Len(cache.rowWaiting[r][a]) : cache.rowWaiting[r][a][i].ev.id = x.id

RetryDue(x) ==
    \E i \in 1..Len(cache.selfq) :
        cache.selfq[i].call.fn = "retryEvent" /\ cache.selfq[i].call.ev.id = x.id

\* the ACK comes after the writeback, when the block is Invalid
AckAfterWriteback ==
    \A x \in AwaitedForAck :
        AckSentFor(x) => x.addr \in env.wrote /\ findBlock(cache, x.addr, FALSE) = NoBlock

\* the writeback of the step carries the data the block had
WritebackCarriesData ==
    \A x \in cache.awaited :
        \A m \in Sent(cache, {"SupplyData"}, {"down", "dir", "snoop"}) :
            "WRITEBACK" \in m.ev.flags /\ m.ev.addr = x.addr => m.ev.payload = x.data

\* until the ACK the Invalidate is held, and the cache goes on working on it
HeldUntilAck ==
    \A x \in AwaitedForAck :
        x.id \notin env.acked => /\ cache.aborted = ""
                                 /\ WaitsOnRow(x) \/ RetryDue(x)
                                 /\ ~Quiescent

\* C29: an Invalidate that finds its block Exclusive is put on the row queue;
\* its ACK (no ACK is owed over the snoop bus) is sent only after a writeback
\* with the block's data was emitted and the block became Invalid, and until
\* then the Invalidate is held and the cache has work left that leads to the
\* ACK: it has not stopped and has not come to rest
C29_ExclusiveInvalidateAcked ==
    AckAfterWriteback /\ WritebackCarriesData /\ HeldUntilAck

(***************************************************************************)
(* Fetch and FetchInvalidate of the directory.                             *)
(***************************************************************************)
\* the fetches for a block the cache held when they arrived
HeldFetches == {f \in env.fetches : f.status \in {"SHARED", "EXCLUSIVE", "DIRTY"}}

\* the fetches the last handler run has answered
AnsweredFetches == {f \in HeldFetches : FetchResps(cache, f.id) # {}}

\* the block the fetch is for, as the answering run found it
FetchedBlock(f) == findBlock(hist.pre, f.addr, FALSE)

\* the answering run is the one of the upstream cache's ACK for the block
UpstreamInvalidated(f) ==
    hist.kind = "ack" /\ hist.src = "UPSTREAM" /\ hist.ev.addr = f.addr

\* one response, with the data the block has
OneResponseWithData(f) ==
    /\ f.id \notin env.twice
    /\ FetchedBlock(f) # NoBlock
    /\ \A i \in FetchResps(cache, f.id) :
          cache.out[i].ev.payload = Blk(cache, FetchedBlock(f)).data

FetchLeaves(f) ==
    IF f.cmd = "FetchInvalidate"
    THEN UpstreamInvalidated(f) /\ Blk(cache, FetchedBlock(f)).status = "INVALID"
    ELSE Blk(cache, FetchedBlock(f)).status = "SHARED"

FetchProcessed ==
    \A f \in AnsweredFetches : OneResponseWithData(f) /\ FetchLeaves(f)

\* a fetch for a held block is not left unanswered in a cache that has
\* stopped or has nothing left to do
Resting ==
    /\ cache.selfq = <<>> /\ cache.busq = <<>> /\ env.loop = <<>>
    /\ \A p \in env.pend : env.cfg.cpu /\ p.link \in {"up0", "up1"}

FetchNotStuck ==
    \A f \in HeldFetches :
        f.id \notin env.answered => cache.aborted = "" /\ ~Resting

\* C30: a Fetch or FetchInvalidate for a block the cache holds Shared,
\* Exclusive or Dirty is processed to the end: the directory gets exactly one
\* response, with the block's data; after a FetchInvalidate no Invalidate is
\* left unanswered upstream and the block is Invalid, after a plain Fetch the
\* block is Shared
C30_FetchAnswered == FetchProcessed /\ FetchNotStuck

(***************************************************************************)
(* The NACK of an Invalidate the cache has issued.                         *)
(***************************************************************************)
\* the last step delivered a NACK for the Invalidate of a record that may be
\* cancelled
NackOfInvalidation ==
    /\ hist.kind = "nack" /\ hist.ev.cmd = "NACK"
    /\ hist.ev.addr \in DOMAIN hist.pre.invalidations
    /\ hist.ev.respTo = hist.pre.invalidations[hist.ev.addr].issuingEvent
    /\ hist.pre.invalidations[hist.ev.addr].canCancel

NackedHeld == hist.pre.invalidations[hist.ev.addr].waitingEvents

NackedBlock == findBlock(hist.pre, hist.ev.addr, FALSE)

\* an L1 retries every held event one tick later, in order, sends nothing
\* and takes one lock off the block per held event, as long as it is locked
NackRetriesHeld ==
    /\ cache.out = <<>> /\ cache.busq = hist.pre.busq
    /\ cache.selfq = hist.pre.selfq \o
          [i \in 1..Len(NackedHeld) |->
              [due |-> 1, made |-> 0,
               call |-> SelfEvent("retryEvent", NackedHeld[i].ev, NoBlock,
                                  NackedHeld[i].src, NULL, 0)]]
    /\ \A b \in AllBlocks :
          Blk(cache, b) =
              IF b = NackedBlock
              THEN [Blk(hist.pre, b) EXCEPT !.locked =
                       IF @ > Len(NackedHeld) THEN @ - Len(NackedHeld) ELSE 0]
              ELSE Blk(hist.pre, b)

\* the link on which the NACK of a held event leaves
NackLink(e) ==
    CASE e.src = "UPSTREAM" -> e.ev.link
      [] e.src = "DOWNSTREAM" -> "down"
      [] e.src = "DIRECTORY" -> "dir"
      [] OTHER -> "snoop"

\* any other cache answers every held event with a NACK toward its source:
\* on the link, or as a request for the snoop bus
NackAnswersHeld ==
    LET onLink == {i \in 1..Len(NackedHeld) : NackedHeld[i].src # "SNOOP"}
        onBus == {i \in 1..Len(NackedHeld) : NackedHeld[i].src = "SNOOP"}
        added == {k \in 1..Len(cache.busq) : k > Len(hist.pre.busq)}
    IN /\ Len(cache.out) = Cardinality(onLink)
       /\ {cache.out[k] : k \in 1..Len(cache.out)} =
             {[link |-> NackLink(NackedHeld[i]),
               ev |-> NackEvent(hist.pre, NackedHeld[i].ev)] : i \in onLink}
       /\ Len(cache.busq) = Len(hist.pre.busq) + Cardinality(onBus)
       /\ SubSeq(cache.busq, 1, Len(hist.pre.busq)) = hist.pre.busq
       /\ {cache.busq[k].ev : k \in added} =
             {NackEvent(hist.pre, NackedHeld[i].ev) : i \in onBus}
       /\ cache.selfq = hist.pre.selfq
       /\ cache.blocks = hist.pre.blocks

\* C31: a NACK whose response_to is the issuing id of an invalidation in
\* progress erases the record and handles every event the record held: an L1
\* unlocks the block and retries the event, any other cache sends a NACK
\* toward the source of the event
C31_NackCancelsInvalidation ==
    NackOfInvalidation =>
        /\ cache.aborted = ""
        /\ hist.ev.addr \notin DOMAIN cache.invalidations
        /\ IF cache.isL1 THEN NackRetriesHeld ELSE NackAnswersHeld

\* the NACK of an invalidation that held an event, in an L1 and in a cache
\* below others
C31_NackInL1 ==
    NackOfInvalidation /\ cache.isL1 /\ Len(NackedHeld) > 0 /\ NackedBlock # NoBlock

C31_NackBelow ==
    NackOfInvalidation /\ ~cache.isL1 /\ Len(NackedHeld) > 0

(***************************************************************************)
(* The directory a load is sent to.                                        *)
(***************************************************************************)
\* the entry di serves the address
DirMatches(di, addr) ==
    /\ di.rangeStart <= addr /\ addr < di.rangeEnd
    /\ di.interleaveSize > 0 =>
          (addr - di.rangeStart) % di.interleaveStep < di.interleaveSize

\* the first entry of the list that serves the address, if there is one
FirstMatch(dirs, addr) ==
    {i \in 1..Len(dirs) : /\ DirMatches(dirs[i], addr)
                          /\ \A j \in 1..(i - 1) : ~DirMatches(dirs[j], addr)}

DirRequests ==
    {i \in 1..Len(cache.out) : cache.out[i].link = "dir" /\ cache.out[i].ev.cmd = "RequestData"}

\* the request step of a load that goes to the directory
DirLoadStep ==
    /\ LoadStepFires /\ LoadStillWaits
    /\ hist.pre.directory_link /\ ~hist.pre.downstream_link
    /\ \A a \in LoadsOfCall : hist.pre.waitingLoads[a].loadDirection # "SEND_UP"

\* C32: a request sent over the directory link goes to the first directory
\* of the snapshotted list whose range contains the address and, when it
\* interleaves, whose offset (addr - start) mod step is below the interleave
\* size; when no directory matches the cache stops and sends no request
C32_FirstMatchingDirectory ==
    /\ \A i \in DirRequests :
          \E k \in FirstMatch(cache.directories, cache.out[i].ev.addr) :
              cache.out[i].ev.dst = cache.directories[k].name
    /\ DirLoadStep =>
          IF FirstMatch(hist.pre.directories, FiredCall.call.addr) = {}
          THEN /\ cache.aborted = "Unable to find directory for address"
               /\ cache.out = <<>>
          ELSE cache.aborted = "" /\ Cardinality(DirRequests) = 1

\* a load goes to the second directory because the first one interleaves
\* and skips the address
C32_SecondDirectoryServes ==
    /\ DirLoadStep
    /\ FirstMatch(hist.pre.directories, FiredCall.call.addr) = {2}
    /\ hist.pre.directories[1].rangeStart <= FiredCall.call.addr
    /\ FiredCall.call.addr < hist.pre.directories[1].rangeEnd
    /\ \E i \in DirRequests : cache.out[i].ev.dst = "dir1"

\* no directory serves the address of a load
C32_NoDirectory ==
    DirLoadStep /\ FirstMatch(hist.pre.directories, FiredCall.call.addr) = {}

\* C33: for every in-progress invalidation waiting_acks is never negative:
\* the ACKs and own snoop loopbacks counted against a record never exceed the
\* Invalidate copies emitted for it, also when an earlier invalidation of the
\* address was cancelled while its messages were still in flight.  The
\* assertion of ackInvalidate that guards the count never fires.
CountsNonNegative ==
    \A a \in DOMAIN cache.invalidations : cache.invalidations[a].waitingACKs >= 0

C33_WaitingAcksNeverNegative ==
    /\ CountsNonNegative
    /\ cache.aborted # "ASSERT(remaining >= 0)"

\* C34: an ACK for an address with no in-progress invalidation, or whose
\* response_to differs from the record's issuing id, changes nothing: no
\* invalidation record is created or modified, so later requests for the
\* address are not treated as waiting for an invalidation.
StrayAck ==
    /\ hist.kind = "ack"
    /\ hist.ev.src # cache.name
    /\ \/ ~waitingForInvalidate(hist.pre, hist.ev.addr)
       \/ hist.ev.respTo # invAt(hist.pre, hist.ev.addr).invalidations[hist.ev.addr].issuingEvent

C34_StrayAckIgnored ==
    StrayAck => /\ cache.invalidations = hist.pre.invalidations
                /\ waitingForInvalidate(cache, hist.ev.addr)
                       = waitingForInvalidate(hist.pre, hist.ev.addr)

\* C35: issue_invalidate is never applied to an address that already has an
\* in-progress invalidation record: no run of a handler writes a second
\* issue over a record that has been issued or holds events, so the
\* record's count, issuing id and queued events are never reset and its
\* block is never locked twice.
C35_NoSecondIssue == cache.reissued = {}

\* nothing is outstanding in the cache: no load, invalidation or supply in
\* progress, no bus request, no deferred event and no event waiting on a row
NothingOutstanding ==
    /\ DOMAIN cache.waitingLoads = {}
    /\ DOMAIN cache.invalidations = {}
    /\ DOMAIN cache.supplyInProgress = {}
    /\ cache.busq = <<>> /\ cache.selfq = <<>>
    /\ \A r \in Rows : DOMAIN cache.rowWaiting[r] = {}

\* C36: every lock taken on a block by a load, an invalidation, a supply or
\* a bus writeback is released exactly once: in every state with nothing
\* outstanding every block's locked_count is zero, also after invalidations
\* ended by cancellation or by a NACK.
C36_LocksReleased ==
    NothingOutstanding =>
        \A r \in Rows, w \in Ways : cache.blocks[r][w].locked = 0

\* C37: while a block's user_locked_count is greater than zero the block
\* stays present and Exclusive: it is not invalidated, not written back to
\* Invalid or Shared and not evicted, so the WriteReq with the Locked flag
\* that ends the lock finds its block Exclusive (the assertion of
\* handleCPURequest on a locked store never fails).
UserLockedExclusive ==
    \A b \in AllBlocks :
        Blk(cache, b).user_locked > 0 => Blk(cache, b).status = "EXCLUSIVE"

C37_UserLockedStaysExclusive ==
    /\ UserLockedExclusive
    /\ cache.aborted # "assert(block->status == CacheBlock::EXCLUSIVE)"

\* C38: a supply sent on the directory link never carries the Delayed flag:
\* the deferred send for a RequestData of the directory never fires while
\* the block's user_locked_count is greater than zero (the assertion of
\* supplyData on the directory branch never fails).
DirectorySupplies ==
    {m \in Range(cache.out) : m.link = "dir" /\ m.ev.cmd = "SupplyData"}

C38_NoDelayedToDirectory ==
    /\ \A m \in DirectorySupplies : "DELAYED" \notin m.ev.flags
    /\ cache.aborted # "assert(!resp->queryFlag(F_DELAYED))"

\* the cache has stopped, or has nothing left to do and nothing to wait for:
\* no deferred call, no bus traffic, and every RequestData and Invalidate it
\* has sent to a cache or a directory has been answered
Halted ==
    \/ cache.aborted # ""
    \/ /\ cache.selfq = <<>> /\ cache.busq = <<>> /\ env.loop = <<>>
       /\ \A p \in env.pend : env.cfg.cpu /\ p.link \in {"up0", "up1"}

AnsweredOnce == env.redone = {}

NoRequestLeft == env.asked # {} => ~Halted

\* C39: every ReadReq or WriteReq delivered to the cache gets exactly one
\* response on upstream link 0, whatever is replayed, retried or cancelled,
\* when every RequestData is answered with a SupplyData and every Invalidate
\* is acknowledged: no request is answered twice, and no request is still
\* unanswered when the cache has stopped or has nothing left to do.
C39_EveryRequestAnsweredOnce == AnsweredOnce /\ NoRequestLeft

\* C40: within the cache no two blocks whose status is other than Invalid
\* have the same base address, so a lookup by address never has two
\* candidate blocks for one address.
Present(b) == Blk(cache, b).status # "INVALID"

C40_OneBlockPerAddress ==
    \A b1, b2 \in AllBlocks :
        Present(b1) /\ Present(b2) /\ Blk(cache, b1).baseAddr = Blk(cache, b2).baseAddr
            => b1 = b2
====
